---- MODULE Spec2Model ----
(***************************************************************************)
(* Verification model of the synapse-subnet registrar: the in-memory       *)
(* module catalog (LocalRegistry, crates/registrar/src/registry.rs) and    *)
(* the module verifier (ModuleVerifier, crates/registrar/src/              *)
(* verification.rs) and the container runtime of a module                  *)
(* (DockerModuleRuntime, crates/registrar/src/docker.rs, over              *)
(* DockerManager, crates/docker-manager/src/lib.rs), with the miner crate, *)
(* the interface core, the router and client of crates/registrar-api and   *)
(* the ValidatorManager of crates/validator.                               *)
(*                                                                         *)
(* Strings whose characters matter (module names) are sequences of code    *)
(* points; every other string is a TLA+ string.                            *)
(***************************************************************************)
EXTENDS Integers, Sequences, FiniteSets, TLC

(***************************************************************************)
(* Bounds of the model.                                                    *)
(***************************************************************************)
NumThreads == 2
MaxCalls == 3

Threads == 1..NumThreads
NoThread == 0

(***************************************************************************)
(* Module names used by the callers of the registry: "" and "abc" in the   *)
(* general specification, "abc", "abd", "ab1", "a-b" where several threads *)
(* register at once.  "ABC" is a name of the verifier's inputs.            *)
(***************************************************************************)
NameEmpty == <<>>
NameUpper == <<65, 66, 67>>
NameAbc == <<97, 98, 99>>
NameAbd == <<97, 98, 100>>
NameAb1 == <<97, 98, 49>>
NameADashB == <<97, 45, 98>>
RegistryNames == {NameEmpty, NameAbc}
ConcurrentNames == {NameAbc, NameAbd, NameAb1, NameADashB}

(***************************************************************************)
(* registry.rs: ModuleState, ModuleStatus, ModuleConfig.                   *)
(***************************************************************************)
ModuleState == {"Running", "Stopped", "Error"}
CallerStates == {"Stopped", "Running"}

ModuleStatus(s) == [state |-> s, last_error |-> "None", uptime |-> "None"]

ModuleStatusNew == ModuleStatus("Stopped")

ModuleConfig(n, s) == [name |-> n, module_type |-> "Python", status |-> ModuleStatus(s)]

Configs(names) == {ModuleConfig(n, s) : n \in names, s \in CallerStates}

(***************************************************************************)
(* Results of the Registry operations (RegistryError and Ok values).       *)
(***************************************************************************)
Ok(v) == [kind |-> "Ok", val |-> v]
Unit == "()"
ModuleNotFound(n) == [kind |-> "ModuleNotFound", val |-> n]
ModuleExists(n) == [kind |-> "ModuleExists", val |-> n]
NoResult == [kind |-> "None", val |-> Unit]

(***************************************************************************)
(* Requests a caller can issue against the Registry trait.                 *)
(***************************************************************************)
NoOp == [kind |-> "none", name |-> NameEmpty, config |-> ModuleConfig(NameEmpty, "Stopped")]
Req(k, n, c) == [kind |-> k, name |-> n, config |-> c]
Requests(names) ==
    {Req("register_module", c.name, c) : c \in Configs(names)}
    \cup {Req("update_module", n, c) : n \in names, c \in Configs(names)}
    \cup {Req(k, n, NoOp.config) : k \in {"remove_module", "get_module", "get_module_status"}, n \in names}
    \cup {Req("list_modules", NameEmpty, NoOp.config)}
WriteOps == {"register_module", "update_module", "remove_module"}
ReadOps == {"list_modules", "get_module", "get_module_status"}

VARIABLES
    modules,    \* LocalRegistry.modules: HashMap<String, ModuleConfig>
    lock,       \* the RwLock around modules: writer and readers holding it
    pc,         \* per thread: "idle", "waiting" (blocked in read()/write()), "locked"
    op,         \* per thread: the call in progress, or the last one when idle
    result,     \* per thread: what the last completed call returned
    ncalls,     \* number of calls issued so far
    removed     \* names removed successfully and not registered since

registryVars == <<modules, lock, pc, op, result, ncalls, removed>>

VARIABLES
    vin,        \* the VerificationConfig, the Module and the host filesystem of a verify call
    vpc,        \* "idle", "ready" (verify called) or "done" (verify returned)
    vresult     \* what verify returned

verifyVars == <<vin, vpc, vresult>>

VARIABLES
    daemon,      \* the Docker daemon: its containers by name, and the next container id
    connections, \* number of connections to the daemon opened so far
    rt,          \* per thread: the DockerModuleRuntime it constructed, if any
    last,        \* the last event: who called what, the result, the daemon calls issued
    nevents      \* number of runtime calls and daemon-side changes so far

runtimeVars == <<daemon, connections, rt, last, nevents>>

VARIABLES
    miner,       \* crates/miner: a Miner, its state and the last call made on it
    retry,       \* crates/miner: a RetryManager.execute call and the operation it drives
    miners,      \* interface/core: MinerServiceImpl.active_miners and the calls of a client
    environment  \* interface/core: an EnvironmentManager, its directory and its backend

minerVars == <<miner, retry>>
interfaceVars == <<miners, environment>>

VARIABLES
    http,        \* registrar-api: the last exchange between a RegistrarClient and the router
    validator,   \* crates/validator: ValidatorManager.subnet_modules and the last call on it
    race         \* a start and a stop of one module in progress at once, one daemon request a step

apiVars == <<http, validator>>
raceVars == <<race>>

vars == <<modules, lock, pc, op, result, ncalls, removed, vin, vpc, vresult,
          daemon, connections, rt, last, nevents, miner, retry, miners, environment,
          http, validator, race>>

nonRegistryVars == <<verifyVars, runtimeVars, minerVars, interfaceVars, apiVars, raceVars>>
nonVerifyVars == <<registryVars, runtimeVars, minerVars, interfaceVars, apiVars, raceVars>>
nonRuntimeVars == <<registryVars, verifyVars, minerVars, interfaceVars, apiVars, raceVars>>
nonMinerVars == <<registryVars, verifyVars, runtimeVars, interfaceVars, apiVars, raceVars>>
nonInterfaceVars == <<registryVars, verifyVars, runtimeVars, minerVars, apiVars, raceVars>>

(***************************************************************************)
(* HashMap operations used by the registry.                                *)
(***************************************************************************)
contains_key(m, k) == k \in DOMAIN m

insert_alone(m, k, v) == [x \in {k} |-> v]

insert(m, k, v) == [x \in (DOMAIN m) \cup {k} |-> IF x = k THEN v ELSE m[x]]

remove(m, k) == [x \in (DOMAIN m) \ {k} |-> m[x]]

values(m) == {m[k] : k \in DOMAIN m}

EmptyMap == [x \in {} |-> NoOp.config]

(***************************************************************************)
(* LocalRegistry keeps storage_path and modules and nothing else: the      *)
(* set of names for which it holds a runtime handle is empty.              *)
(***************************************************************************)
runtimes == {}

(***************************************************************************)
(* std::sync::RwLock: write() needs the lock free, read() needs no writer. *)
(***************************************************************************)
LockFree == [writer |-> NoThread, readers |-> {}]

CanWrite(lk) == lk.writer = NoThread /\ lk.readers = {}

CanRead_always(lk) == TRUE

CanRead(lk) == lk.writer = NoThread

(***************************************************************************)
(* The bodies of the Registry operations of LocalRegistry, as functions    *)
(* from the catalog and the arguments to <<catalog after, result>>.        *)
(***************************************************************************)
list_modules(m) == <<m, Ok(values(m))>>

get_module(m, name) ==
    IF contains_key(m, name) THEN <<m, Ok(m[name])>> ELSE <<m, ModuleNotFound(name)>>

register_module_upsert(m, config) ==
    <<insert(m, config.name, config), Ok(Unit)>>

register_module(m, config) ==
    IF contains_key(m, config.name)
    THEN <<m, ModuleExists(config.name)>>
    ELSE <<insert(m, config.name, config), Ok(Unit)>>

update_module(m, name, config) ==
    IF ~contains_key(m, name)
    THEN <<m, ModuleNotFound(name)>>
    ELSE <<insert(m, name, config), Ok(Unit)>>

remove_module_keep(m, name) ==
    IF ~contains_key(m, name)
    THEN <<m, ModuleNotFound(name)>>
    ELSE <<m, Ok(Unit)>>

remove_module(m, name) ==
    IF ~contains_key(m, name)
    THEN <<m, ModuleNotFound(name)>>
    ELSE <<remove(m, name), Ok(Unit)>>

get_module_status(m, name) ==
    LET r == get_module(m, name)[2]
    IN  IF r.kind = "Ok" THEN <<m, Ok(r.val.status)>> ELSE <<m, r>>

Apply(m, o) ==
    CASE o.kind = "list_modules" -> list_modules(m)
      [] o.kind = "get_module" -> get_module(m, o.name)
      [] o.kind = "register_module" -> register_module(m, o.config)
      [] o.kind = "update_module" -> update_module(m, o.name, o.config)
      [] o.kind = "remove_module" -> remove_module(m, o.name)
      [] o.kind = "get_module_status" -> get_module_status(m, o.name)

(***************************************************************************)
(* Actions.  A call is issued, blocks until the lock is granted, runs its  *)
(* body under the lock and releases the lock when it returns.              *)
(***************************************************************************)
RegistryInit ==
    /\ modules = EmptyMap
    /\ lock = LockFree
    /\ pc = [t \in Threads |-> "idle"]
    /\ op = [t \in Threads |-> NoOp]
    /\ result = [t \in Threads |-> NoResult]
    /\ ncalls = 0
    /\ removed = {}

Issue(t, r) ==
    /\ pc[t] = "idle"
    /\ pc' = [pc EXCEPT ![t] = "waiting"]
    /\ op' = [op EXCEPT ![t] = r]
    /\ result' = [result EXCEPT ![t] = NoResult]
    /\ ncalls' = ncalls + 1
    /\ UNCHANGED <<modules, lock, removed>>
    /\ UNCHANGED nonRegistryVars

Call(t, r) ==
    /\ ncalls < MaxCalls
    /\ Issue(t, r)

CallRegister(t) ==
    /\ op[t].kind = "none"
    /\ \E c \in Configs(ConcurrentNames) : Issue(t, Req("register_module", c.name, c))

AcquireWrite(t) ==
    /\ pc[t] = "waiting"
    /\ op[t].kind \in WriteOps
    /\ CanWrite(lock)
    /\ lock' = [lock EXCEPT !.writer = t]
    /\ pc' = [pc EXCEPT ![t] = "locked"]
    /\ UNCHANGED <<modules, op, result, ncalls, removed>>
    /\ UNCHANGED nonRegistryVars

AcquireRead(t) ==
    /\ pc[t] = "waiting"
    /\ op[t].kind \in ReadOps
    /\ CanRead(lock)
    /\ lock' = [lock EXCEPT !.readers = @ \cup {t}]
    /\ pc' = [pc EXCEPT ![t] = "locked"]
    /\ UNCHANGED <<modules, op, result, ncalls, removed>>
    /\ UNCHANGED nonRegistryVars

Return(t) ==
    /\ pc[t] = "locked"
    /\ LET r == Apply(modules, op[t])
       IN  /\ modules' = r[1]
           /\ result' = [result EXCEPT ![t] = r[2]]
           /\ removed' =
                IF op[t].kind = "remove_module" /\ r[2].kind = "Ok"
                THEN removed \cup {op[t].name}
                ELSE removed \ DOMAIN r[1]
    /\ lock' = [writer |-> IF lock.writer = t THEN NoThread ELSE lock.writer,
                readers |-> lock.readers \ {t}]
    /\ pc' = [pc EXCEPT ![t] = "idle"]
    /\ UNCHANGED <<op, ncalls>>
    /\ UNCHANGED nonRegistryVars


(***************************************************************************)
(* verification.rs: the inputs of ModuleVerifier.                          *)
(*                                                                         *)
(* An image reference and a host path are sequences of tokens: the         *)
(* separators "://", "/", ":" and "@" and the words between them.  A u64   *)
(* count of nanoseconds is kept in two limbs, value = hi * 10^9 + lo.      *)
(***************************************************************************)
MaxNameLen == 65
MaxFails == 10

Some(v) == [present |-> TRUE, val |-> v]
None(v) == [present |-> FALSE, val |-> v]

Range(s) == {s[i] : i \in 1..Len(s)}

Rep(c, n) == [i \in 1..n |-> c]

Nanos(secs, rest) == [hi |-> secs, lo |-> rest]

HealthCheckConfig(test, interval, timeout, retries) ==
    [test |-> test, interval |-> interval, timeout |-> timeout, retries |-> retries]

Docker(image, port, env, volumes, health_check) ==
    [type |-> "Docker", image |-> image, tag |-> "latest", port |-> port, env |-> env,
     volumes |-> volumes, health_check |-> health_check, path |-> <<>>]

Local(path) ==
    [type |-> "Local", image |-> <<>>, tag |-> "", port |-> 0, env |-> None({}),
     volumes |-> None({}), health_check |-> None(HealthCheckConfig(<<>>, Nanos(0, 0), Nanos(0, 0), 0)),
     path |-> path]

Module(name, module_type) == [name |-> name, module_type |-> module_type]

VerificationConfig(registries, port_ranges, env_vars, volume_paths) ==
    [allowed_registries |-> registries, allowed_port_ranges |-> port_ranges,
     required_env_vars |-> env_vars, allowed_volume_paths |-> volume_paths]

VerificationConfigDefault ==
    VerificationConfig({"docker.io", "ghcr.io"}, <<<<1024, 65535>>>>,
                       {"MODULE_NAME", "MODULE_PORT"},
                       {<<"/", "data">>, <<"/", "tmp">>, <<"/", "var", "/", "log">>})

(***************************************************************************)
(* VerificationError and the Ok(()) of verify.                             *)
(***************************************************************************)
VOk == [kind |-> "Ok", val |-> Unit]
InvalidName(msg) == [kind |-> "InvalidName", val |-> msg]
InvalidImage(msg) == [kind |-> "InvalidImage", val |-> msg]
InvalidPort(port) == [kind |-> "InvalidPort", val |-> port]
MissingEnvVar(v) == [kind |-> "MissingEnvVar", val |-> v]
InvalidHealthCheck(msg) == [kind |-> "InvalidHealthCheck", val |-> msg]
InvalidVolume(msg) == [kind |-> "InvalidVolume", val |-> msg]

(***************************************************************************)
(* verify_name.  name.len() is the length in bytes of the UTF-8 encoding.  *)
(***************************************************************************)
is_ascii_lowercase(c) == c \in 97..122

is_ascii_digit(c) == c \in 48..57

Utf8Len(c) == IF c < 128 THEN 1 ELSE IF c < 2048 THEN 2 ELSE IF c < 65536 THEN 3 ELSE 4

RECURSIVE ByteLen(_)
ByteLen(name) == IF name = <<>> THEN 0 ELSE Utf8Len(Head(name)) + ByteLen(Tail(name))

verify_name_64(name) ==
    IF ~(\A i \in 1..Len(name) :
            is_ascii_lowercase(name[i]) \/ is_ascii_digit(name[i]) \/ name[i] = 45)
    THEN InvalidName("Name must be lowercase alphanumeric with dashes")
    ELSE IF ByteLen(name) < 3 \/ ByteLen(name) > 64
    THEN InvalidName("Name must be between 3 and 63 characters")
    ELSE VOk

verify_name(name) ==
    IF ~(\A i \in 1..Len(name) :
            is_ascii_lowercase(name[i]) \/ is_ascii_digit(name[i]) \/ name[i] = 45)
    THEN InvalidName("Name must be lowercase alphanumeric with dashes")
    ELSE IF ByteLen(name) < 3 \/ ByteLen(name) > 63
    THEN InvalidName("Name must be between 3 and 63 characters")
    ELSE VOk

(***************************************************************************)
(* verify_docker_image.  Url::parse and Url::host_str on token sequences:  *)
(* scheme "://" [userinfo "@"] host [":" port] ["/" path ...].  A special  *)
(* scheme (http, https, ws, wss, ftp) needs a host and lowercases it; any  *)
(* other scheme keeps the host as written and may have none.               *)
(***************************************************************************)
Separators == {"://", "/", ":", "@"}
SpecialSchemes == {"http", "https", "ws", "wss", "ftp"}
DigitWords == {"80", "443", "5000"}

to_ascii_lowercase(w) ==
    CASE w = "DOCKER.IO" -> "docker.io"
      [] w = "GHCR.IO" -> "ghcr.io"
      [] OTHER -> w

contains(s, t) == t \in Range(s)

IndexOf(s, t) ==
    IF contains(s, t) THEN CHOOSE i \in 1..Len(s) : s[i] = t /\ \A j \in 1..(i - 1) : s[j] # t
    ELSE Len(s) + 1

LastIndexOf(s, t) ==
    IF contains(s, t) THEN CHOOSE i \in 1..Len(s) : s[i] = t /\ \A j \in (i + 1)..Len(s) : s[j] # t
    ELSE 0

ParseError == [ok |-> FALSE, host |-> None("")]
Parsed(h) == [ok |-> TRUE, host |-> h]

Url_parse(url) ==
    IF Len(url) < 2 \/ url[1] \in Separators \/ url[2] # "://" THEN ParseError
    ELSE
      LET scheme == url[1]
          rest == SubSeq(url, 3, Len(url))
          authority == SubSeq(rest, 1, IndexOf(rest, "/") - 1)
          hostport == SubSeq(authority, LastIndexOf(authority, "@") + 1, Len(authority))
          has_userinfo == contains(authority, "@")
          hostpart == SubSeq(hostport, 1, IndexOf(hostport, ":") - 1)
          portpart == SubSeq(hostport, IndexOf(hostport, ":") + 1, Len(hostport))
          has_port == portpart # <<>>
          host == IF hostpart = <<>> THEN "" ELSE hostpart[1]
      IN  IF Len(hostpart) > 1 THEN ParseError
          ELSE IF has_port /\ (Len(portpart) > 1 \/ portpart[1] \notin DigitWords) THEN ParseError
          ELSE IF scheme \in SpecialSchemes
               THEN IF host = "" THEN ParseError ELSE Parsed(Some(to_ascii_lowercase(host)))
          ELSE IF host = ""
               THEN IF has_userinfo \/ has_port THEN ParseError ELSE Parsed(None(""))
          ELSE Parsed(Some(host))

verify_docker_image_any_host(config, image) ==
    LET image_url == IF contains(image, "://") THEN Url_parse(image)
                     ELSE Url_parse(<<"docker", "://">> \o image)
    IN  IF ~image_url.ok THEN InvalidImage(<<"Invalid image format">>)
        ELSE IF ~image_url.host.present THEN VOk
        ELSE IF image_url.host.val \notin config.allowed_registries
             THEN InvalidImage(<<"Registry not allowed", image_url.host.val>>)
        ELSE VOk

verify_docker_image(config, image) ==
    LET image_url == IF contains(image, "://") THEN Url_parse(image)
                     ELSE Url_parse(<<"docker", "://">> \o image)
    IN  IF ~image_url.ok THEN InvalidImage(<<"Invalid image format">>)
        ELSE IF ~image_url.host.present THEN InvalidImage(<<"Missing registry">>)
        ELSE IF image_url.host.val \notin config.allowed_registries
             THEN InvalidImage(<<"Registry not allowed", image_url.host.val>>)
        ELSE VOk

(***************************************************************************)
(* verify_port.                                                            *)
(***************************************************************************)
verify_port_exclusive(config, port) ==
    IF \E i \in 1..Len(config.allowed_port_ranges) :
          /\ port >= config.allowed_port_ranges[i][1]
          /\ port < config.allowed_port_ranges[i][2]
    THEN VOk
    ELSE InvalidPort(port)

verify_port(config, port) ==
    IF \E i \in 1..Len(config.allowed_port_ranges) :
          /\ port >= config.allowed_port_ranges[i][1]
          /\ port <= config.allowed_port_ranges[i][2]
    THEN VOk
    ELSE InvalidPort(port)

(***************************************************************************)
(* verify_env_vars.  required_env_vars is a HashSet: the loop meets its    *)
(* members in an unspecified order, so any missing variable may be the     *)
(* one reported.  The result is the set of possible outcomes.              *)
(***************************************************************************)
verify_env_vars_default(config, env) ==
    LET missing == {v \in config.required_env_vars : ~env.present \/ v \notin env.val}
    IN  IF missing = {} THEN {VOk} ELSE {MissingEnvVar(v) : v \in missing}

verify_env_vars(config, env) ==
    IF ~env.present THEN {MissingEnvVar("No environment variables defined")}
    ELSE LET missing == {v \in config.required_env_vars : v \notin env.val}
         IN  IF missing = {} THEN {VOk} ELSE {MissingEnvVar(v) : v \in missing}

(***************************************************************************)
(* verify_volumes.  PathBuf::starts_with compares whole components.  The   *)
(* volumes are a HashMap keyed by host path, met in an unspecified order.  *)
(***************************************************************************)
components(path) ==
    LET is_abs == path # <<>> /\ path[1] = "/"
        names == SelectSeq(path, LAMBDA w : w # "/")
        kept == IF names # <<>> /\ names[1] = "." /\ ~is_abs
                THEN <<".">> \o SelectSeq(Tail(names), LAMBDA w : w # ".")
                ELSE SelectSeq(names, LAMBDA w : w # ".")
    IN  (IF is_abs THEN <<"/">> ELSE <<>>) \o kept

starts_with(path, base) ==
    LET p == components(path)
        b == components(base)
    IN  Len(b) <= Len(p) /\ SubSeq(p, 1, Len(b)) = b

verify_volumes_any(config, volumes) ==
    IF ~volumes.present THEN {VOk}
    ELSE LET refused == {h \in volumes.val :
                            ~\E a \in config.allowed_volume_paths : starts_with(h, a)}
         IN  IF refused # volumes.val \/ refused = {} THEN {VOk}
             ELSE {InvalidVolume(<<"Path not allowed", h>>) : h \in refused}

verify_volumes(config, volumes) ==
    IF ~volumes.present THEN {VOk}
    ELSE LET refused == {h \in volumes.val :
                            ~\E a \in config.allowed_volume_paths : starts_with(h, a)}
         IN  IF refused = {} THEN {VOk}
             ELSE {InvalidVolume(<<"Path not allowed", h>>) : h \in refused}

(***************************************************************************)
(* verify_health_check.  x / 1_000_000_000 on a two-limb value is its      *)
(* high limb.                                                              *)
(***************************************************************************)
DivBillion(x) == x.hi

verify_health_check(health_check) ==
    IF ~health_check.present THEN VOk
    ELSE LET hc == health_check.val
             interval_secs == DivBillion(hc.interval)
             timeout_secs == DivBillion(hc.timeout)
         IN  IF hc.test = <<>>
             THEN InvalidHealthCheck("Health check test command is empty")
             ELSE IF interval_secs < 1 \/ interval_secs > 300
             THEN InvalidHealthCheck("Health check interval must be between 1 and 300 seconds")
             ELSE IF timeout_secs < 1 \/ timeout_secs > 60
             THEN InvalidHealthCheck("Health check timeout must be between 1 and 60 seconds")
             ELSE IF hc.retries < 1 \/ hc.retries > 10
             THEN InvalidHealthCheck("Health check retries must be between 1 and 10")
             ELSE VOk

(***************************************************************************)
(* verify_local_path.  fs is the set of paths that exist on the host.      *)
(***************************************************************************)
verify_local_path(path, fs) ==
    IF path = <<>> \/ path[1] # "/" THEN InvalidVolume(<<"Path must be absolute">>)
    ELSE IF components(path) \notin fs THEN InvalidVolume(<<"Path does not exist">>)
    ELSE VOk

(***************************************************************************)
(* verify: the set of results a call can return.                           *)
(***************************************************************************)
verify_docker_port_first(config, t) ==
    IF verify_port(config, t.port).kind # "Ok" THEN {verify_port(config, t.port)}
    ELSE IF verify_docker_image(config, t.image).kind # "Ok" THEN {verify_docker_image(config, t.image)}
    ELSE IF \E r \in verify_env_vars(config, t.env) : r.kind # "Ok" THEN verify_env_vars(config, t.env)
    ELSE IF \E r \in verify_volumes(config, t.volumes) : r.kind # "Ok" THEN verify_volumes(config, t.volumes)
    ELSE {verify_health_check(t.health_check)}

verify_docker(config, t) ==
    IF verify_docker_image(config, t.image).kind # "Ok" THEN {verify_docker_image(config, t.image)}
    ELSE IF verify_port(config, t.port).kind # "Ok" THEN {verify_port(config, t.port)}
    ELSE IF \E r \in verify_env_vars(config, t.env) : r.kind # "Ok" THEN verify_env_vars(config, t.env)
    ELSE IF \E r \in verify_volumes(config, t.volumes) : r.kind # "Ok" THEN verify_volumes(config, t.volumes)
    ELSE {verify_health_check(t.health_check)}

verify(config, module, fs) ==
    IF verify_name(module.name).kind # "Ok" THEN {verify_name(module.name)}
    ELSE IF module.module_type.type = "Docker" THEN verify_docker(config, module.module_type)
    ELSE {verify_local_path(module.module_type.path, fs)}

(***************************************************************************)
(* Inputs of the verifier.  The module of the tests (create_test_module)   *)
(* and variations of one field or of several fields at once.  An image     *)
(* string is written from a reference [scheme, user, host, port, path].    *)
(***************************************************************************)
ImageRef(scheme, user, host, port, path) ==
    [scheme |-> scheme, user |-> user, host |-> host, port |-> port, path |-> path]

RECURSIVE Slashed(_)
Slashed(path) == IF path = <<>> THEN <<>> ELSE <<"/", Head(path)>> \o Slashed(Tail(path))

Render(ref) ==
    (IF ref.scheme = "" THEN <<>> ELSE <<ref.scheme, "://">>)
    \o (IF ref.user = "" THEN <<>> ELSE <<ref.user, "@">>)
    \o (IF ref.host = "" THEN <<>> ELSE <<ref.host>>)
    \o (IF ref.port = "" THEN <<>> ELSE <<":", ref.port>>)
    \o Slashed(ref.path)

TestModuleName == <<116, 101, 115, 116, 45, 109, 111, 100, 117, 108, 101>>
UpperModuleName == <<84, 69, 83, 84, 95, 77, 79, 68, 85, 76, 69>>

TestRef == ImageRef("", "", "docker.io", "", <<"library", "nginx">>)
PrivateRef == ImageRef("", "", "private.registry.com", "", <<"nginx">>)
TestEnv == Some({"MODULE_NAME", "MODULE_PORT"})
TestVolumes == Some({<<"/", "data", "/", "test">>})
EtcPath == <<"/", "etc">>
HomePath == <<"/", "home">>
TestCommand == <<"CMD", "curl", "-f", "http://localhost/health">>
TestHealthCheck == Some(HealthCheckConfig(TestCommand, Nanos(30, 0), Nanos(5, 0), 3))
NoHealthCheck == None(HealthCheckConfig(<<>>, Nanos(0, 0), Nanos(0, 0), 0))

Input(config, name, ref, port, env, volumes, health_check) ==
    [config |-> config, ref |-> ref, fs |-> {},
     module |-> Module(name, Docker(Render(ref), port, env, volumes, health_check))]

LocalInput(path, fs) ==
    [config |-> VerificationConfigDefault, ref |-> TestRef, fs |-> fs,
     module |-> Module(TestModuleName, Local(path))]

TestInput ==
    Input(VerificationConfigDefault, TestModuleName, TestRef, 8080, TestEnv, TestVolumes,
          TestHealthCheck)

WithConfig(registries, port_ranges, env_vars) ==
    VerificationConfig(registries, port_ranges, env_vars,
                       VerificationConfigDefault.allowed_volume_paths)

CrossInputs ==
    {Input(VerificationConfigDefault, n, r, p, e, v, h) :
        n \in {TestModuleName, UpperModuleName},
        r \in {TestRef, PrivateRef},
        p \in {8080, 80},
        e \in {TestEnv, Some({"MODULE_PORT"}), Some({}), None({})},
        v \in {TestVolumes, Some({<<"/", "data", "/", "test">>, EtcPath}),
               Some({EtcPath, HomePath}), None({})},
        h \in {TestHealthCheck, NoHealthCheck,
               Some(HealthCheckConfig(TestCommand, Nanos(0, 0), Nanos(5, 0), 3))}}

NameChars == {97, 122, 48, 57, 45}
OddChars == {65, 90, 95, 32, 96, 123, 47, 58, 46, 64, 233, 8364}
Replace(name, i, c) == [name EXCEPT ![i] = c]
OddNames(n) == {Replace(Rep(97, n), i, c) : i \in {1, n}, c \in OddChars}
NameInputValues ==
    {Rep(c, n) : c \in NameChars, n \in 0..MaxNameLen}
    \cup UNION {OddNames(n) : n \in {1, 3, 31, 62, 63}}
    \cup {NameEmpty, NameUpper, NameAbc, TestModuleName, UpperModuleName}
NameInputs ==
    {Input(VerificationConfigDefault, n, TestRef, 8080, TestEnv, TestVolumes, TestHealthCheck) :
        n \in NameInputValues}

ImageRefs ==
    {ImageRef(s, u, h, p, path) :
        s \in {"", "https", "oci"}, u \in {"", "user"},
        h \in {"", "docker.io", "ghcr.io", "DOCKER.IO", "private.registry.com", "nginx"},
        p \in {"", "5000", "latest"},
        path \in {<<>>, <<"library", "nginx">>}}
RegistrySets == {VerificationConfigDefault.allowed_registries, {}, {"nginx", "private.registry.com"}}
ImageInputs ==
    {Input(WithConfig(rs, VerificationConfigDefault.allowed_port_ranges,
                      VerificationConfigDefault.required_env_vars),
           TestModuleName, r, 8080, TestEnv, TestVolumes, TestHealthCheck) :
        rs \in RegistrySets, r \in ImageRefs}

Ports == {0, 79, 80, 81, 1023, 1024, 1025, 7999, 8000, 8080, 9000, 9001, 65534, 65535}
PortRangeLists ==
    {VerificationConfigDefault.allowed_port_ranges, <<>>, <<<<80, 80>>, <<8000, 9000>>>>,
     <<<<9000, 8000>>>>, <<<<0, 1023>>, <<65535, 65535>>>>}
PortInputs ==
    {Input(WithConfig(VerificationConfigDefault.allowed_registries, rl,
                      VerificationConfigDefault.required_env_vars),
           TestModuleName, TestRef, p, TestEnv, TestVolumes, TestHealthCheck) :
        rl \in PortRangeLists, p \in Ports}

EnvKeys == {"MODULE_NAME", "MODULE_PORT", "NGINX_PORT"}
RequiredSets == SUBSET {"MODULE_NAME", "MODULE_PORT", "API_KEY"}
EnvInputs ==
    {Input(WithConfig(VerificationConfigDefault.allowed_registries,
                      VerificationConfigDefault.allowed_port_ranges, rq),
           TestModuleName, TestRef, 8080, e, TestVolumes, TestHealthCheck) :
        rq \in RequiredSets, e \in {None({})} \cup {Some(ks) : ks \in SUBSET EnvKeys}}

LocalPaths == {<<"/", "opt", "/", "module">>, <<"opt", "/", "module">>, <<>>}
LocalInputs ==
    {LocalInput(p, fs) : p \in LocalPaths, fs \in {{}, {components(<<"/", "opt", "/", "module">>)}}}

VolumeInputs ==
    LET paths == {<<"/", "data">>, <<"/", "data", "/", "test">>, <<"/", "data", "/">>,
                  <<"/", "/", "data", "/", "/", "test">>,
                  <<"/", ".", "/", "data", "/", "test">>, <<"/", "database">>,
                  <<"/", "data", "/", "..", "/", "etc">>, EtcPath, <<"/", "tmp", "/", "x">>,
                  <<"/", "var", "/", "log", "/", "app">>, <<"/", "var">>,
                  <<"data", "/", "test">>, <<".", "/", "data">>, <<>>}
        allowed == {VerificationConfigDefault.allowed_volume_paths, {},
                    {<<"data">>, <<"/", "var", "/">>}, {<<>>}}
    IN  {Input(VerificationConfig(VerificationConfigDefault.allowed_registries,
                                  VerificationConfigDefault.allowed_port_ranges,
                                  VerificationConfigDefault.required_env_vars, ap),
               TestModuleName, TestRef, 8080, TestEnv, v, TestHealthCheck) :
            ap \in allowed,
            v \in {None({})} \cup {Some(vs) : vs \in {x \in SUBSET paths : Cardinality(x) <= 2}}}

HealthInputs ==
    LET intervals == {Nanos(0, 0), Nanos(0, 999999999), Nanos(1, 0), Nanos(30, 0),
                      Nanos(300, 0), Nanos(300, 1), Nanos(300, 999999999), Nanos(301, 0),
                      Nanos(2147483647, 0)}
        timeouts == {Nanos(0, 0), Nanos(0, 999999999), Nanos(1, 0), Nanos(5, 0),
                     Nanos(60, 0), Nanos(60, 500000000), Nanos(61, 0)}
    IN  {Input(VerificationConfigDefault, TestModuleName, TestRef, 8080, TestEnv, TestVolumes,
               Some(HealthCheckConfig(c, i, t, r))) :
            c \in {TestCommand, <<>>}, i \in intervals, t \in timeouts,
            r \in {0, 1, 3, 10, 11, 2147483647}}

VerifyInputs ==
    CrossInputs \cup NameInputs \cup ImageInputs \cup PortInputs \cup EnvInputs
    \cup LocalInputs \cup VolumeInputs \cup HealthInputs

(***************************************************************************)
(* docker-manager: the daemon and DockerManager.  A session is the daemon  *)
(* as one handler call sees it: the daemon's state, the daemon calls       *)
(* issued so far in the handler, and the positions of the calls that the   *)
(* daemon refuses for reasons of its own (connection lost, daemon error).  *)
(* DaemonStatuses are the status strings an inspect can carry: the seven   *)
(* of the Docker API and "" for a status the reply leaves out.             *)
(***************************************************************************)
DaemonStatuses ==
    {"created", "running", "paused", "restarting", "removing", "exited", "dead", ""}

NoContainers == [n \in {} |-> [id |-> 0, status |-> ""]]

DaemonInit == [containers |-> NoContainers, next_id |-> 1]

Session(d, faults) == [daemon |-> d, log |-> <<>>, faults |-> faults]

FaultSets == SUBSET (1..4)

DockerError(kind) == [kind |-> kind, val |-> Unit]

\* One request to the daemon.  arg is a container name for list_containers
\* and create_container and a container id for the other requests.  The
\* daemon refuses a request at a faulty position, a create under a name in
\* use, a request on an id it does not hold, and a start of a container that
\* is neither created, exited nor running; a stop leaves a container that
\* does not run as it is, and a remove is forced.
DockerCall(s, api, arg) ==
    LET cs == s.daemon.containers
        held == {n \in DOMAIN cs : cs[n].id = arg}
        accepted ==
            /\ (Len(s.log) + 1) \notin s.faults
            /\ CASE api = "list_containers" -> TRUE
                 [] api = "create_container" -> arg \notin DOMAIN cs
                 [] api = "start_container" ->
                        held # {} /\ \A n \in held : cs[n].status \in {"created", "exited", "running"}
                 [] OTHER -> held # {}
        after ==
            CASE ~accepted -> cs
              [] api = "create_container" ->
                     [n \in DOMAIN cs \cup {arg} |->
                         IF n = arg THEN [id |-> s.daemon.next_id, status |-> "created"] ELSE cs[n]]
              [] api = "start_container" ->
                     [n \in DOMAIN cs |-> IF n \in held THEN [cs[n] EXCEPT !.status = "running"] ELSE cs[n]]
              [] api = "stop_container" ->
                     [n \in DOMAIN cs |->
                         IF n \in held /\ cs[n].status \in {"running", "paused", "restarting"}
                         THEN [cs[n] EXCEPT !.status = "exited"] ELSE cs[n]]
              [] api = "remove_container" -> [n \in DOMAIN cs \ held |-> cs[n]]
              [] OTHER -> cs
        ids == IF api = "list_containers" /\ arg \in DOMAIN cs THEN <<cs[arg].id>> ELSE <<>>
        reported == IF api = "inspect_container" /\ accepted
                    THEN cs[CHOOSE n \in held : TRUE].status ELSE ""
    IN  [s |-> [daemon |-> [containers |-> after,
                            next_id |-> IF accepted /\ api = "create_container"
                                        THEN s.daemon.next_id + 1 ELSE s.daemon.next_id],
                log |-> Append(s.log, [api |-> api, ok |-> accepted]),
                faults |-> s.faults],
         ok |-> accepted, ids |-> ids, status |-> reported]

DockerManager_new(opened, ok) ==
    IF ok THEN [connections |-> opened + 1, res |-> Ok(opened + 1)]
    ELSE [connections |-> opened, res |-> DockerError("Docker")]

get_container_id(s, name) ==
    LET l == DockerCall(s, "list_containers", name)
    IN  [s |-> l.s,
         res |-> IF ~l.ok THEN DockerError("Docker")
                 ELSE IF l.ids = <<>> THEN DockerError("ContainerNotFound")
                 ELSE Ok(Head(l.ids))]

create_container(s, name) ==
    LET l == DockerCall(s, "list_containers", name)
        c == DockerCall(l.s, "create_container", name)
    IN  IF ~l.ok THEN [s |-> l.s, res |-> DockerError("Docker")]
        ELSE IF l.ids # <<>> THEN [s |-> l.s, res |-> DockerError("ContainerExists")]
        ELSE [s |-> c.s, res |-> IF c.ok THEN Ok(Unit) ELSE DockerError("Docker")]

start_container(s, name) ==
    LET g == get_container_id(s, name)
        c == DockerCall(g.s, "start_container", g.res.val)
    IN  IF g.res.kind # "Ok" THEN g
        ELSE [s |-> c.s, res |-> IF c.ok THEN Ok(Unit) ELSE DockerError("Docker")]

stop_container(s, name) ==
    LET g == get_container_id(s, name)
        c == DockerCall(g.s, "stop_container", g.res.val)
    IN  IF g.res.kind # "Ok" THEN g
        ELSE [s |-> c.s, res |-> IF c.ok THEN Ok(Unit) ELSE DockerError("Docker")]

remove_container(s, name) ==
    LET g == get_container_id(s, name)
        c == DockerCall(g.s, "remove_container", g.res.val)
    IN  IF g.res.kind # "Ok" THEN g
        ELSE [s |-> c.s, res |-> IF c.ok THEN Ok(Unit) ELSE DockerError("Docker")]

get_container_status(s, name) ==
    LET g == get_container_id(s, name)
        c == DockerCall(g.s, "inspect_container", g.res.val)
        state == CASE c.status = "created" -> "Created"
                   [] c.status = "running" -> "Running"
                   [] c.status = "paused" -> "Paused"
                   [] c.status = "restarting" -> "Restarting"
                   [] c.status = "removing" -> "Removing"
                   [] c.status = "exited" -> "Exited"
                   [] c.status = "dead" -> "Dead"
                   [] OTHER -> "Dead"
    IN  IF g.res.kind # "Ok" THEN g
        ELSE [s |-> c.s, res |-> IF c.ok THEN Ok(state) ELSE DockerError("Docker")]

(***************************************************************************)
(* docker.rs: DockerModuleRuntime.  A runtime error carries the kind of    *)
(* the DockerError it wraps.                                               *)
(***************************************************************************)
DockerRuntimeError(e) == [kind |-> "DockerRuntimeError::Docker", val |-> e.kind]

InvalidModuleType == [kind |-> "InvalidModuleType", val |-> Unit]

NoRuntime == [present |-> FALSE, module |-> TestInput.module, manager |-> 0]

DockerModuleRuntime_new(opened, module, ok) ==
    LET m == DockerManager_new(opened, ok)
    IN  [connections |-> m.connections,
         res |-> IF m.res.kind = "Ok" THEN Ok(Unit) ELSE DockerRuntimeError(m.res),
         runtime |-> IF m.res.kind = "Ok"
                     THEN [present |-> TRUE, module |-> module, manager |-> m.res.val]
                     ELSE NoRuntime]

ensure_container_exists(s, module) ==
    IF module.module_type.type = "Docker"
    THEN LET c == create_container(s, module.name)
         IN  [s |-> c.s, res |-> IF c.res.kind = "Ok" THEN Ok(Unit) ELSE DockerRuntimeError(c.res)]
    ELSE [s |-> s, res |-> InvalidModuleType]

cleanup(s, module) ==
    LET a == stop_container(s, module.name)
        b == remove_container(a.s, module.name)
    IN  [s |-> b.s, res |-> Ok(Unit)]

start_regardless(s, module) ==
    LET e == ensure_container_exists(s, module)
        c == start_container(e.s, module.name)
    IN  [s |-> c.s, res |-> IF c.res.kind = "Ok" THEN e.res ELSE DockerRuntimeError(c.res)]

start(s, module) ==
    LET e == ensure_container_exists(s, module)
        c == start_container(e.s, module.name)
    IN  IF e.res.kind # "Ok" THEN e
        ELSE [s |-> c.s, res |-> IF c.res.kind = "Ok" THEN Ok(Unit) ELSE DockerRuntimeError(c.res)]

stop(s, module) == cleanup(s, module)

status(s, module) ==
    LET g == get_container_status(s, module.name)
        state == IF g.res.val = "Running" THEN "Running"
                 ELSE IF g.res.val \in {"Exited", "Dead"} THEN "Failed"
                 ELSE "Stopped"
    IN  [s |-> g.s,
         res |-> IF g.res.kind = "Ok"
                 THEN Ok([state |-> state, last_error |-> "None", uptime |-> "None"])
                 ELSE DockerRuntimeError(g.res)]

(***************************************************************************)
(* module.rs: Module::start on the module types of that file.  todo!()     *)
(* panics; import_ok tells whether the Python import and the construction  *)
(* of the instance succeed.                                                *)
(***************************************************************************)
Panic(message) == [kind |-> "Panic", val |-> message]

ModuleTypes ==
    {[type |-> "Docker", requirements_path |-> FALSE, venv_path |-> FALSE],
     [type |-> "Native", requirements_path |-> FALSE, venv_path |-> FALSE]}
    \cup {[type |-> "Python", requirements_path |-> r, venv_path |-> v] : r, v \in BOOLEAN}

Module_start(module_type, import_ok) ==
    CASE module_type.type = "Docker" -> Panic("not yet implemented: Implement Docker container start")
      [] module_type.type = "Native" -> Panic("not yet implemented: Implement native library loading")
      [] OTHER ->
            IF module_type.venv_path THEN Panic("not yet implemented: Implement venv activation")
            ELSE IF module_type.requirements_path THEN Panic("not yet implemented: Implement pip install")
            ELSE IF import_ok THEN Ok(Unit)
            ELSE [kind |-> "PyErr", val |-> Unit]

(***************************************************************************)
(* The runtime as a state machine.  Each thread constructs at most one     *)
(* runtime, for the Docker module of the tests or for a Local module of    *)
(* the same name, and calls start, stop and status on it; a call is one    *)
(* step.  The daemon's containers change status on their own.              *)
(***************************************************************************)
RuntimeModules == {TestInput.module, LocalInput(<<"/", "opt", "/", "module">>, {}).module}

Event(t, o, type, res, log) == [t |-> t, op |-> o, type |-> type, res |-> res, log |-> log]

RuntimeIdle ==
    /\ daemon = DaemonInit
    /\ connections = 0
    /\ rt = [t \in Threads |-> NoRuntime]
    /\ last = Event(NoThread, "none", "", NoResult, <<>>)
    /\ nevents = 0

New(t, module) ==
    /\ ~rt[t].present
    /\ \E ok \in BOOLEAN :
          LET n == DockerModuleRuntime_new(connections, module, ok)
          IN  /\ connections' = n.connections
              /\ rt' = [rt EXCEPT ![t] = n.runtime]
              /\ last' = Event(t, "new", module.module_type.type, n.res, <<>>)
    /\ UNCHANGED <<daemon, nevents>>
    /\ UNCHANGED nonRuntimeVars

Returned_from(t, o, r) ==
    /\ daemon' = r.s.daemon
    /\ last' = Event(t, o, rt[t].module.module_type.type, r.res, r.s.log)
    /\ nevents' = nevents + 1
    /\ UNCHANGED <<connections, rt>>
    /\ UNCHANGED nonRuntimeVars

Start(t) ==
    /\ rt[t].present
    /\ nevents < MaxCalls
    /\ \E f \in FaultSets : Returned_from(t, "start", start(Session(daemon, f), rt[t].module))

Stop(t) ==
    /\ rt[t].present
    /\ nevents < MaxCalls
    /\ \E f \in FaultSets : Returned_from(t, "stop", stop(Session(daemon, f), rt[t].module))

Status(t) ==
    /\ rt[t].present
    /\ nevents < MaxCalls
    /\ \E f \in FaultSets : Returned_from(t, "status", status(Session(daemon, f), rt[t].module))

ModuleStart(t, module_type) ==
    /\ nevents < MaxCalls
    /\ \E import_ok \in BOOLEAN :
          last' = Event(t, "Module::start", module_type.type, Module_start(module_type, import_ok), <<>>)
    /\ nevents' = nevents + 1
    /\ UNCHANGED <<daemon, connections, rt>>
    /\ UNCHANGED nonRuntimeVars

DaemonChange(name, reported) ==
    /\ name \in DOMAIN daemon.containers
    /\ daemon.containers[name].status # reported
    /\ nevents < MaxCalls
    /\ daemon' = [daemon EXCEPT !.containers[name].status = reported]
    /\ last' = Event(NoThread, "daemon", "", NoResult, <<>>)
    /\ nevents' = nevents + 1
    /\ UNCHANGED <<connections, rt>>
    /\ UNCHANGED nonRuntimeVars

RuntimeNext ==
    \/ \E t \in Threads, m \in RuntimeModules : New(t, m)
    \/ \E t \in Threads : Start(t)
    \/ \E t \in Threads : Stop(t)
    \/ \E t \in Threads : Status(t)
    \/ \E t \in Threads, mt \in ModuleTypes : ModuleStart(t, mt)
    \/ \E n \in {TestModuleName}, st \in DaemonStatuses : DaemonChange(n, st)

(***************************************************************************)
(* The node: the registry, the runtimes and the daemon together, and the   *)
(* lifecycle calls on a module name.  start_module is the handler of       *)
(* registrar-api, which looks the module up and then calls the registry;   *)
(* the registry's own start_module and stop_module follow the              *)
(* specification: look the runtime of the name up, ModuleNotFound if there *)
(* is none, else delegate and wrap the runtime's error.  The runtime of a  *)
(* name is a container runtime of the module of the tests under that name. *)
(***************************************************************************)
NodeNames == {TestModuleName, NameAbc}

NodeRequests ==
    {r \in Requests(NodeNames) :
        r.kind \in {"register_module", "remove_module", "get_module_status"}}

RuntimeError(e) == [kind |-> "RuntimeError", val |-> e.val]

Registry_start_module(m, s, name) ==
    LET r == start(s, Module(name, TestInput.module.module_type))
    IN  IF ~contains_key(m, name) THEN [s |-> s, res |-> ModuleNotFound(name)]
        ELSE [s |-> r.s, res |-> IF r.res.kind = "Ok" THEN Ok(Unit) ELSE RuntimeError(r.res)]

Registry_stop_module(m, s, name) ==
    LET r == stop(s, Module(name, TestInput.module.module_type))
    IN  IF ~contains_key(m, name) THEN [s |-> s, res |-> ModuleNotFound(name)]
        ELSE [s |-> r.s, res |-> IF r.res.kind = "Ok" THEN Ok(Unit) ELSE RuntimeError(r.res)]

start_module_unchecked(m, s, name) ==
    LET r == start(s, Module(name, TestInput.module.module_type))
    IN  [s |-> r.s, res |-> IF r.res.kind = "Ok" THEN Ok(Unit) ELSE RuntimeError(r.res)]

start_module(m, s, name) ==
    LET module == get_module(m, name)[2]
    IN  IF module.kind # "Ok" THEN [s |-> s, res |-> ModuleNotFound(name)]
        ELSE Registry_start_module(m, s, name)

Budget == ncalls + nevents < MaxCalls

Handled(t, o, r) ==
    /\ daemon' = r.s.daemon
    /\ last' = Event(t, o, "Docker", r.res, r.s.log)
    /\ nevents' = nevents + 1
    /\ UNCHANGED <<connections, rt>>
    /\ UNCHANGED nonRuntimeVars

StartModule(t, name) ==
    /\ Budget
    /\ pc[t] = "idle"
    /\ CanRead(lock)
    /\ \E f \in FaultSets : Handled(t, "start_module", start_module(modules, Session(daemon, f), name))

StopModule(t, name) ==
    /\ Budget
    /\ pc[t] = "idle"
    /\ CanRead(lock)
    /\ \E f \in FaultSets : Handled(t, "stop_module", Registry_stop_module(modules, Session(daemon, f), name))

NodeCall(t, r) == Budget /\ Call(t, r)

NodeStart(t) == Budget /\ Start(t)

\* The calls on the node are made one after the other, by one thread.
Caller == CHOOSE t \in Threads : \A u \in Threads : t <= u

NodeNext ==
    \/ \E r \in NodeRequests : NodeCall(Caller, r)
    \/ AcquireWrite(Caller)
    \/ AcquireRead(Caller)
    \/ Return(Caller)
    \/ New(Caller, TestInput.module)
    \/ NodeStart(Caller)
    \/ \E n \in NodeNames : StartModule(Caller, n)
    \/ \E n \in NodeNames : StopModule(Caller, n)

(***************************************************************************)
(* crates/miner, miner.rs: the Miner and its four transitions.  Each takes *)
(* the state and gives the new state and the result of the call.           *)
(***************************************************************************)
MinerStates == {"Initialized", "Running", "Paused", "Stopped", "Failed"}

InvalidStateTransition == [kind |-> "InvalidStateTransition", val |-> Unit]

Miner_new == "Initialized"

Miner_start_any(state) == [state |-> "Running", res |-> Ok(Unit)]

Miner_start(state) ==
    IF state \in {"Initialized", "Stopped"}
    THEN [state |-> "Running", res |-> Ok(Unit)]
    ELSE [state |-> state, res |-> InvalidStateTransition]

Miner_stop_reset(state) ==
    IF state \in {"Running", "Paused"}
    THEN [state |-> "Initialized", res |-> Ok(Unit)]
    ELSE [state |-> state, res |-> InvalidStateTransition]

Miner_stop(state) ==
    IF state \in {"Running", "Paused"}
    THEN [state |-> "Stopped", res |-> Ok(Unit)]
    ELSE [state |-> state, res |-> InvalidStateTransition]

Miner_pause(state) ==
    IF state = "Running"
    THEN [state |-> "Paused", res |-> Ok(Unit)]
    ELSE [state |-> state, res |-> InvalidStateTransition]

Miner_resume(state) ==
    IF state = "Paused"
    THEN [state |-> "Running", res |-> Ok(Unit)]
    ELSE [state |-> state, res |-> InvalidStateTransition]

MinerIdle == miner = [state |-> Miner_new, op |-> "new", res |-> Ok(Unit)]

MinerCalled(o, r) ==
    /\ miner' = [state |-> r.state, op |-> o, res |-> r.res]
    /\ UNCHANGED retry
    /\ UNCHANGED nonMinerVars

MinerStart == MinerCalled("start", Miner_start(miner.state))

MinerStop == MinerCalled("stop", Miner_stop(miner.state))

MinerPause == MinerCalled("pause", Miner_pause(miner.state))

MinerResume == MinerCalled("resume", Miner_resume(miner.state))

(***************************************************************************)
(* crates/miner, retry.rs: RetryConfig and RetryManager.execute.           *)
(* Durations are counted in milliseconds.  The operation is the            *)
(* TestOperation of retry_tests.rs, which fails until its counter reaches  *)
(* target_success.  execute is followed through its await points: the      *)
(* call of the operation and the sleep between two attempts.  One call of  *)
(* execute is followed from its beginning to its return.                   *)
(***************************************************************************)
PriorityLevels == {"Background", "Low", "Medium", "High"}

RetryConfig(max_retries, base_delay, max_delay, timeout, priority) ==
    [max_retries |-> max_retries, base_delay |-> base_delay, max_delay |-> max_delay,
     timeout |-> timeout, priority |-> priority]

RetryConfig_new(priority) ==
    LET base_config == RetryConfig(3, 1000, 60000, 300000, priority)
    IN  CASE priority = "High" -> base_config
          [] priority = "Medium" -> [base_config EXCEPT !.max_retries = 5, !.base_delay = 2000]
          [] priority = "Low" -> [base_config EXCEPT !.max_retries = 7, !.base_delay = 5000]
          [] priority = "Background" -> [base_config EXCEPT !.max_retries = 10, !.base_delay = 10000]

RECURSIVE Pow(_, _)
Pow(b, e) == IF e = 0 THEN 1 ELSE b * Pow(b, e - 1)

\* base_delay.mul_f64(1.5f64.powi(attempt)), capped at max_delay
calculate_delay(config, attempt) ==
    LET exponential_delay == (config.base_delay * Pow(3, attempt)) \div Pow(2, attempt)
    IN  IF exponential_delay < config.max_delay THEN exponential_delay ELSE config.max_delay

\* retry.rs:99, the test at the head of the loop
timed_out_never(config, elapsed) == FALSE

timed_out(config, elapsed) == elapsed > config.timeout

\* retry.rs:112, the test after a failed attempt
exhausted_late(config, attempt) == attempt > config.max_retries

exhausted_exact(config, attempt) == attempt = config.max_retries

exhausted(config, attempt) == attempt >= config.max_retries

\* TestOperation::execute: fetch_add on the counter, Err while it was below target_success
TestOperation_execute(fail_count, target_success) ==
    [fail_count |-> fail_count + 1,
     res |-> IF fail_count < target_success
             THEN [kind |-> "OperationFailed", val |-> Unit]
             ELSE Ok("true")]

MaxRetriesExceeded == [kind |-> "MaxRetriesExceeded", val |-> Unit]
Timeout == [kind |-> "Timeout", val |-> Unit]

\* The configurations of retry_tests.rs, those of RetryConfig::new, and small ones.
RetryConfigs ==
    {RetryConfig_new(p) : p \in PriorityLevels}
    \cup {RetryConfig(3, 100, 1000, 5000, "High"), RetryConfig(10, 2000, 5000, 1000, "Low")}
    \cup {RetryConfig(m, 2000, 5000, t, "High") : m \in 0..2, t \in {0, 1000}}

\* Time between Instant::now() and the first elapsed(); time a sleep takes
\* beyond its delay; time the operation takes: none, or more than the timeout.
Latencies == {0, 1}
OperationTimes(config) == {0, config.timeout + 1}

RetryIdle ==
    retry = [pc |-> "idle", config |-> RetryConfig_new("High"), target_success |-> 0,
             attempt |-> 0, elapsed |-> 0, fail_count |-> 0, slept |-> 0, result |-> NoResult]

RetryStep(r) ==
    /\ retry' = r
    /\ UNCHANGED miner
    /\ UNCHANGED nonMinerVars

\* retry.rs:88-93
Execute(config, target_success) ==
    /\ retry.pc = "idle"
    /\ \E l \in Latencies :
          RetryStep([pc |-> "attempt", config |-> config, target_success |-> target_success,
                     attempt |-> 0, elapsed |-> l, fail_count |-> 0, slept |-> 0,
                     result |-> NoResult])

\* retry.rs:95-115: one turn of the loop up to the return or the sleep
Attempt ==
    /\ retry.pc = "attempt"
    /\ \E d \in OperationTimes(retry.config) :
          LET attempt == retry.attempt + 1
              called == TestOperation_execute(retry.fail_count, retry.target_success)
              after == [retry EXCEPT !.attempt = attempt, !.fail_count = called.fail_count,
                                     !.elapsed = retry.elapsed + d]
          IN  RetryStep(
                IF timed_out(retry.config, retry.elapsed)
                THEN [retry EXCEPT !.attempt = attempt, !.pc = "done", !.result = Timeout]
                ELSE IF called.res.kind = "Ok"
                THEN [after EXCEPT !.pc = "done", !.result = called.res]
                ELSE IF exhausted(retry.config, attempt)
                THEN [after EXCEPT !.pc = "done", !.result = MaxRetriesExceeded]
                ELSE [after EXCEPT !.pc = "sleeping"])

\* retry.rs:116-117
Sleep ==
    /\ retry.pc = "sleeping"
    /\ \E l \in Latencies :
          LET delay == calculate_delay(retry.config, retry.attempt)
          IN  RetryStep([retry EXCEPT !.pc = "attempt", !.slept = delay,
                                      !.elapsed = retry.elapsed + delay + l])

MinerNext ==
    \/ MinerStart
    \/ MinerStop
    \/ MinerPause
    \/ MinerResume
    \/ \E c \in RetryConfigs, k \in 0..MaxFails : Execute(c, k)
    \/ Attempt
    \/ Sleep

(***************************************************************************)
(* interface/core/services/miner.rs: MinerServiceImpl.  Each operation     *)
(* takes active_miners and gives <<active_miners', result>>.               *)
(***************************************************************************)
MinerNames == {TestModuleName, NameAbc}
Stakes == {0, 1000, 2000}

MinerStatus(is_active, current_stake) ==
    [is_active |-> is_active, current_stake |-> current_stake, uptime |-> 0,
     current_metrics |-> "None"]

InvalidStake == [kind |-> "InvalidStake", val |-> "Stake amount must be greater than 0"]

MinerNotFound(module_name) == [kind |-> "MinerError::ModuleNotFound", val |-> module_name]

validate_stake(stake_amount) == IF stake_amount = 0 THEN InvalidStake ELSE Ok(Unit)

register_miner(active, module_name, initial_stake) ==
    LET valid == validate_stake(initial_stake)
    IN  IF valid.kind # "Ok" THEN <<active, valid>>
        ELSE <<active, Ok(MinerStatus(FALSE, initial_stake))>>

start_mining(active, module_name) ==
    IF module_name \notin DOMAIN active THEN <<active, MinerNotFound(module_name)>>
    ELSE IF active[module_name].is_active THEN <<active, Ok(active[module_name])>>
    ELSE LET new_status == [active[module_name] EXCEPT !.is_active = TRUE]
         IN  <<[active EXCEPT ![module_name] = new_status], Ok(new_status)>>

stop_mining(active, module_name) ==
    IF module_name \notin DOMAIN active THEN <<active, MinerNotFound(module_name)>>
    ELSE IF ~active[module_name].is_active THEN <<active, Ok(active[module_name])>>
    ELSE LET stopped == [active[module_name] EXCEPT !.is_active = FALSE]
         IN  <<[active EXCEPT ![module_name] = stopped], Ok(stopped)>>

update_stake(active, module_name, new_stake) ==
    LET valid == validate_stake(new_stake)
    IN  IF valid.kind # "Ok" THEN <<active, valid>>
        ELSE IF module_name \notin DOMAIN active THEN <<active, MinerNotFound(module_name)>>
        ELSE LET updated == [active[module_name] EXCEPT !.current_stake = new_stake]
             IN  <<[active EXCEPT ![module_name] = updated], Ok(updated)>>

ServiceIdle ==
    miners = [active_miners |-> EmptyMap, op |-> "none", name |-> NameEmpty, res |-> NoResult]

ServiceCalled(o, module_name, r) ==
    /\ miners' = [active_miners |-> r[1], op |-> o, name |-> module_name, res |-> r[2]]
    /\ UNCHANGED environment
    /\ UNCHANGED nonInterfaceVars

RegisterMiner(module_name, stake) ==
    ServiceCalled("register_miner", module_name,
                  register_miner(miners.active_miners, module_name, stake))

StartMining(module_name) ==
    ServiceCalled("start_mining", module_name, start_mining(miners.active_miners, module_name))

StopMining(module_name) ==
    ServiceCalled("stop_mining", module_name, stop_mining(miners.active_miners, module_name))

UpdateStake(module_name, stake) ==
    ServiceCalled("update_stake", module_name,
                  update_stake(miners.active_miners, module_name, stake))

(***************************************************************************)
(* interface/core/environment: the EnvironmentManager over the             *)
(* MockDockerManager of its tests.  base_dir holds a directory per module  *)
(* with its config.toml.                                                   *)
(***************************************************************************)
EnvironmentNames == {TestModuleName, NameAbc, NameAbd, NameUpper}

\* test_module and abc carry their own name in config.toml, abd carries the
\* name abc, ABC has a config.toml that does not parse; NameEmpty has no directory.
BaseDir ==
    [n \in EnvironmentNames |->
        CASE n = NameAbd -> [kind |-> "Ok", name |-> NameAbc, version |-> "1.0.0"]
          [] n = NameUpper -> [kind |-> "TomlError", name |-> n, version |-> ""]
          [] OTHER -> [kind |-> "Ok", name |-> n, version |-> "1.0.0"]]

load_module_config(base_dir, name) ==
    IF name \notin DOMAIN base_dir THEN [kind |-> "IoError", val |-> Unit]
    ELSE IF base_dir[name].kind # "Ok" THEN [kind |-> "TomlError", val |-> Unit]
    ELSE Ok(base_dir[name])

Mock_create_container(containers, name) == insert(containers, name, "Created")

Mock_start_container(containers, name) ==
    IF name \in DOMAIN containers
    THEN [containers |-> [containers EXCEPT ![name] = "Running"], res |-> Ok(Unit)]
    ELSE [containers |-> containers, res |-> DockerError("ContainerNotFound")]

ModuleEnvironment(name, version, container_status) ==
    [name |-> name, version |-> version, container_status |-> container_status]

\* gives the manager's map, the backend's containers and the result
switch_environment(base_dir, active_modules, containers, name) ==
    LET config == load_module_config(base_dir, name)
        created == Mock_create_container(containers, config.val.name)
        started == Mock_start_container(created, name)
        env == ModuleEnvironment(name, config.val.version, started.containers[name])
    IN  IF config.kind # "Ok"
        THEN [active_modules |-> active_modules, containers |-> containers, res |-> config]
        ELSE IF started.res.kind # "Ok"
        THEN [active_modules |-> active_modules, containers |-> created, res |-> started.res]
        ELSE [active_modules |-> insert(active_modules, name, env),
              containers |-> started.containers, res |-> Ok(Unit)]

\* self.active_modules.values().next(): the first value in the map's own order
get_active_environment(active_modules) ==
    IF DOMAIN active_modules = {}
    THEN {[kind |-> "None", val |-> ModuleEnvironment(NameEmpty, "", "")]}
    ELSE {Ok(active_modules[n]) : n \in DOMAIN active_modules}

EnvironmentIdle ==
    environment = [base_dir |-> BaseDir, active_modules |-> EmptyMap, containers |-> EmptyMap,
                   op |-> "new", name |-> NameEmpty, res |-> Ok(Unit),
                   active |-> [kind |-> "None", val |-> ModuleEnvironment(NameEmpty, "", "")]]

SwitchEnvironment(name) ==
    LET r == switch_environment(environment.base_dir, environment.active_modules,
                                environment.containers, name)
    IN  /\ environment' = [environment EXCEPT !.active_modules = r.active_modules,
                              !.containers = r.containers, !.op = "switch_environment",
                              !.name = name, !.res = r.res]
        /\ UNCHANGED miners
        /\ UNCHANGED nonInterfaceVars

\* name is the environment switched to last
GetActiveEnvironment ==
    /\ \E e \in get_active_environment(environment.active_modules) :
          environment' = [environment EXCEPT !.op = "get_active_environment", !.active = e]
    /\ UNCHANGED miners
    /\ UNCHANGED nonInterfaceVars

InterfaceNext ==
    \/ \E n \in MinerNames, k \in Stakes : RegisterMiner(n, k)
    \/ \E n \in MinerNames : StartMining(n)
    \/ \E n \in MinerNames : StopMining(n)
    \/ \E n \in MinerNames, k \in Stakes : UpdateStake(n, k)
    \/ \E n \in EnvironmentNames \cup {NameEmpty} : SwitchEnvironment(n)
    \/ GetActiveEnvironment

(***************************************************************************)
(* crates/registrar-api, lib.rs: the router's handlers over a Registry.    *)
(* A handler takes the catalog (and, for a start, the daemon session) of   *)
(* the node behind the router and gives the catalog and session after,     *)
(* the registry's outcome and the response.  The registry behind the       *)
(* router follows the specification of the Registry trait: create_module   *)
(* rejects a name in use, unregister_module and update_module_status an    *)
(* unknown name.                                                           *)
(***************************************************************************)
Response(code, body) == [status |-> code, body |-> body]

into_response(e) ==
    CASE e.kind = "ModuleNotFound" -> Response("NOT_FOUND", "error")
      [] e.kind = "ModuleExists" -> Response("CONFLICT", "error")
      [] e.kind = "BadRequest" -> Response("BAD_REQUEST", "error")
      [] OTHER -> Response("INTERNAL_SERVER_ERROR", "error")

Registry_create_module(m, module) == register_module(m, module)

Registry_unregister_module(m, name) == remove_module(m, name)

Registry_update_module_status(m, name, st) ==
    IF ~contains_key(m, name)
    THEN <<m, ModuleNotFound(name)>>
    ELSE <<[m EXCEPT ![name].status = ModuleStatus(st)], Ok(Unit)>>

Handler(m, s, outcome, success) ==
    [m |-> m, s |-> s, outcome |-> outcome,
     response |-> IF outcome.kind = "Ok" THEN success ELSE into_response(outcome)]

Api_create_module(m, s, request) ==
    LET r == Registry_create_module(m, ModuleConfig(request.name, "Stopped"))
    IN  Handler(r[1], s, r[2], Response("CREATED", ""))

Api_delete_module(m, s, name) ==
    LET r == Registry_unregister_module(m, name)
    IN  Handler(r[1], s, r[2], Response("NO_CONTENT", ""))

Api_get_module_status(m, s, name) ==
    LET r == get_module(m, name)
    IN  Handler(m, s, r[2], Response("OK", IF r[2].kind = "Ok" THEN r[2].val.status.state ELSE ""))

Api_update_module_status(m, s, name, st) ==
    LET r == Registry_update_module_status(m, name, st)
    IN  Handler(r[1], s, r[2], Response("OK", ""))

Api_start_module(m, s, name) ==
    CHOOSE h \in {Handler(m, r.s, r.res, Response("OK", "")) : r \in {start_module(m, s, name)}} : TRUE

(***************************************************************************)
(* crates/registrar-api, client.rs: RegistrarClient.  Each method sends    *)
(* its request to the router and reads the status of the response; the     *)
(* exchange it gives back carries the node after the request, the          *)
(* registry's outcome, the status on the wire and the client's result.     *)
(* The response h is received once and read several times.                 *)
(***************************************************************************)
ClientError(kind, v) == [kind |-> kind, val |-> v]

Exchange(o, name, h, res) ==
    [op |-> o, name |-> name, m |-> h.m, s |-> h.s,
     outcome |-> h.outcome.kind, status |-> h.response.status, res |-> res]

RegistrarClient_register_module(m, s, module) ==
    CHOOSE x \in
        {Exchange("register_module", module.name, h,
                  CASE h.response.status = "CREATED" -> Ok(Unit)
                    [] h.response.status = "BAD_REQUEST" -> ClientError("ClientError::BadRequest", module.name)
                    [] h.response.status = "CONFLICT" -> ClientError("ClientError::ModuleExists", module.name)
                    [] OTHER -> ClientError("ClientError::Internal", module.name))
            : h \in {Api_create_module(m, s, [name |-> module.name, module_type |-> module.module_type])}} : TRUE

RegistrarClient_unregister_module(m, s, name) ==
    CHOOSE x \in
        {Exchange("unregister_module", name, h,
                  CASE h.response.status = "NO_CONTENT" -> Ok(Unit)
                    [] h.response.status = "NOT_FOUND" -> ClientError("ClientError::ModuleNotFound", name)
                    [] OTHER -> ClientError("ClientError::Internal", name))
            : h \in {Api_delete_module(m, s, name)}} : TRUE

RegistrarClient_get_module_status(m, s, name) ==
    CHOOSE x \in
        {Exchange("get_module_status", name, h,
                  CASE h.response.status = "OK" -> Ok(h.response.body)
                    [] h.response.status = "NOT_FOUND" -> ClientError("ClientError::ModuleNotFound", name)
                    [] OTHER -> ClientError("ClientError::Internal", name))
            : h \in {Api_get_module_status(m, s, name)}} : TRUE

RegistrarClient_update_module_status(m, s, name, st) ==
    CHOOSE x \in
        {Exchange("update_module_status", name, h,
                  CASE h.response.status = "NO_CONTENT" -> Ok(Unit)
                    [] h.response.status = "NOT_FOUND" -> ClientError("ClientError::ModuleNotFound", name)
                    [] OTHER -> ClientError("ClientError::Internal", name))
            : h \in {Api_update_module_status(m, s, name, st)}} : TRUE

RegistrarClient_start_module(m, s, name) ==
    CHOOSE x \in
        {Exchange("start_module", name, h,
                  CASE h.response.status = "NO_CONTENT" -> Ok(Unit)
                    [] h.response.status = "NOT_FOUND" -> ClientError("ClientError::ModuleNotFound", name)
                    [] OTHER -> ClientError("ClientError::Internal", name))
            : h \in {Api_start_module(m, s, name)}} : TRUE

(***************************************************************************)
(* crates/validator, lib.rs: ValidatorManager over a RegistrarClient.      *)
(* v is subnet_modules.  A registrar error is returned wrapped, by `?`.    *)
(***************************************************************************)
ValidatorError(e) == [kind |-> "ValidatorError::RegistryError", val |-> e.kind]

Outcome(v, x, res) == [subnet_modules |-> v, x |-> x, res |-> res]

ValidatorManager_start_module(v, m, s, name) ==
    CHOOSE r \in {Outcome(v, x, IF x.res.kind = "Ok" THEN Ok(Unit) ELSE ValidatorError(x.res))
                     : x \in {RegistrarClient_start_module(m, s, name)}} : TRUE

ValidatorManager_register_module(v, m, s, module) ==
    LET stored == IF contains_key(v, module.name) THEN v ELSE insert(v, module.name, module)
    IN  CHOOSE r \in {IF a.res.kind # "Ok" THEN Outcome(v, a, ValidatorError(a.res))
                      ELSE ValidatorManager_start_module(stored, a.m, a.s, module.name)
                         : a \in {RegistrarClient_register_module(m, s, module)}} : TRUE

ValidatorManager_unregister_module(v, m, s, name) ==
    CHOOSE r \in {IF a.res.kind # "Ok" THEN Outcome(v, a, ValidatorError(a.res))
                  ELSE Outcome(remove(v, name), a, Ok(Unit))
                     : a \in {RegistrarClient_unregister_module(m, s, name)}} : TRUE

(***************************************************************************)
(* The router, a client and a validator as a state machine.  A call of the *)
(* client or of the validator is one step; http is the last exchange with  *)
(* the router, validator the manager's map, its map before the last call   *)
(* on it, and that call and its result.  The client's start_module is      *)
(* called by the validator, after a registration.                          *)
(***************************************************************************)
ApiNames == {TestModuleName, NameAbc}

ApiModules == {ModuleConfig(n, "Stopped") : n \in ApiNames}

\* The daemon refuses no request of a start, or one of its four.
ApiFaults == {{}} \cup {{i} : i \in 1..4}

NoExchange == [op |-> "none", name |-> NameEmpty, outcome |-> "None", status |-> "", res |-> NoResult]

ApiIdle ==
    /\ http = NoExchange
    /\ validator = [subnet_modules |-> EmptyMap, before |-> EmptyMap, op |-> "none", res |-> NoResult]

Exchanged(x) ==
    /\ modules' = x.m
    /\ daemon' = x.s.daemon
    /\ http' = [op |-> x.op, name |-> x.name, outcome |-> x.outcome, status |-> x.status, res |-> x.res]
    /\ UNCHANGED <<lock, pc, op, result, ncalls, removed>>
    /\ UNCHANGED <<connections, rt, last, nevents>>
    /\ UNCHANGED <<verifyVars, minerVars, interfaceVars, raceVars>>

Requested(x) == Exchanged(x) /\ UNCHANGED validator

ClientRegisterModule(module) ==
    \E x \in {RegistrarClient_register_module(modules, Session(daemon, {}), module)} : Requested(x)

ClientUnregisterModule(name) ==
    \E x \in {RegistrarClient_unregister_module(modules, Session(daemon, {}), name)} : Requested(x)

ClientGetModuleStatus(name) ==
    \E x \in {RegistrarClient_get_module_status(modules, Session(daemon, {}), name)} : Requested(x)

ClientUpdateModuleStatus(name, st) ==
    \E x \in {RegistrarClient_update_module_status(modules, Session(daemon, {}), name, st)} :
        Requested(x)

Managed(o, r) ==
    /\ Exchanged(r.x)
    /\ validator' = [subnet_modules |-> r.subnet_modules, before |-> validator.subnet_modules,
                     op |-> o, res |-> r.res]

ValidatorRegisterModule(module) ==
    \E f \in ApiFaults :
        \E r \in {ValidatorManager_register_module(validator.subnet_modules, modules,
                                                    Session(daemon, f), module)} :
            Managed("register_module", r)

ValidatorUnregisterModule(name) ==
    \E r \in {ValidatorManager_unregister_module(validator.subnet_modules, modules,
                                                  Session(daemon, {}), name)} :
        Managed("unregister_module", r)

ApiNext ==
    \/ \E module \in ApiModules : ClientRegisterModule(module)
    \/ \E n \in ApiNames : ClientUnregisterModule(n)
    \/ \E n \in ApiNames : ClientGetModuleStatus(n)
    \/ \E n \in ApiNames, st \in CallerStates : ClientUpdateModuleStatus(n, st)
    \/ \E module \in ApiModules : ValidatorRegisterModule(module)
    \/ \E n \in ApiNames : ValidatorUnregisterModule(n)

(***************************************************************************)
(* A start and a stop of the runtime of one module, called at once by two  *)
(* tasks.  Each call is the sequence of daemon requests of docker.rs and   *)
(* of DockerManager: start lists, creates, lists and starts; stop (which   *)
(* is cleanup) lists, stops, lists and removes, and ignores every error.   *)
(* A call is a record of its position, the container id its last list      *)
(* gave, and its result; one step is one request to the daemon.            *)
(***************************************************************************)
Task(at, id, res) == [pc |-> at, id |-> id, res |-> res]

TaskIdle == Task("idle", 0, NoResult)

Failed(kind) == Task("done", 0, DockerRuntimeError(DockerError(kind)))

start_step(d, task, module) ==
    LET name == module.name
        l == DockerCall(Session(d, {}), "list_containers", name)
        c == DockerCall(Session(d, {}), "create_container", name)
        r == DockerCall(Session(d, {}), "start_container", task.id)
    IN  CASE task.pc = "create_list" ->
                [daemon |-> l.s.daemon,
                 task |-> IF l.ids # <<>> THEN Failed("ContainerExists") ELSE Task("create", 0, NoResult)]
          [] task.pc = "create" ->
                [daemon |-> c.s.daemon,
                 task |-> IF c.ok THEN Task("start_list", 0, NoResult) ELSE Failed("Docker")]
          [] task.pc = "start_list" ->
                [daemon |-> l.s.daemon,
                 task |-> IF l.ids = <<>> THEN Failed("ContainerNotFound")
                          ELSE Task("start", Head(l.ids), NoResult)]
          [] OTHER ->
                [daemon |-> r.s.daemon,
                 task |-> IF r.ok THEN Task("done", 0, Ok(Unit)) ELSE Failed("Docker")]

stop_step_strict(d, task, module) ==
    LET name == module.name
        l == DockerCall(Session(d, {}), "list_containers", name)
        a == DockerCall(Session(d, {}), "stop_container", task.id)
        b == DockerCall(Session(d, {}), "remove_container", task.id)
    IN  CASE task.pc = "stop_list" ->
                [daemon |-> l.s.daemon,
                 task |-> IF l.ids = <<>> THEN Failed("ContainerNotFound")
                          ELSE Task("stop", Head(l.ids), NoResult)]
          [] task.pc = "stop" ->
                [daemon |-> a.s.daemon,
                 task |-> IF a.ok THEN Task("remove_list", 0, NoResult) ELSE Failed("Docker")]
          [] task.pc = "remove_list" ->
                [daemon |-> l.s.daemon,
                 task |-> IF l.ids = <<>> THEN Failed("ContainerNotFound")
                          ELSE Task("remove", Head(l.ids), NoResult)]
          [] OTHER ->
                [daemon |-> b.s.daemon,
                 task |-> IF b.ok THEN Task("done", 0, Ok(Unit)) ELSE Failed("Docker")]

stop_step(d, task, module) ==
    LET name == module.name
        l == DockerCall(Session(d, {}), "list_containers", name)
        a == DockerCall(Session(d, {}), "stop_container", task.id)
        b == DockerCall(Session(d, {}), "remove_container", task.id)
    IN  CASE task.pc = "stop_list" ->
                [daemon |-> l.s.daemon,
                 task |-> IF l.ids = <<>> THEN Task("remove_list", 0, NoResult)
                          ELSE Task("stop", Head(l.ids), NoResult)]
          [] task.pc = "stop" ->
                [daemon |-> a.s.daemon, task |-> Task("remove_list", 0, NoResult)]
          [] task.pc = "remove_list" ->
                [daemon |-> l.s.daemon,
                 task |-> IF l.ids = <<>> THEN Task("done", 0, Ok(Unit))
                          ELSE Task("remove", Head(l.ids), NoResult)]
          [] OTHER ->
                [daemon |-> b.s.daemon, task |-> Task("done", 0, Ok(Unit))]

RaceIdle == race = [before |-> DaemonInit, start |-> TaskIdle, stop |-> TaskIdle]

RaceFrame ==
    /\ UNCHANGED <<connections, rt, last>>
    /\ UNCHANGED <<registryVars, verifyVars, minerVars, interfaceVars, apiVars>>

\* Both calls are made, on the daemon as the calls before them left it.
Begin ==
    /\ race.start.pc \in {"idle", "done"}
    /\ race.stop.pc \in {"idle", "done"}
    /\ nevents < MaxCalls
    /\ race' = [before |-> daemon,
                start |-> Task("create_list", 0, NoResult),
                stop |-> Task("stop_list", 0, NoResult)]
    /\ nevents' = nevents + 1
    /\ UNCHANGED daemon
    /\ RaceFrame

StartStep ==
    /\ race.start.pc \notin {"idle", "done"}
    /\ LET n == start_step(daemon, race.start, TestInput.module)
       IN  /\ daemon' = n.daemon
           /\ race' = [race EXCEPT !.start = n.task]
    /\ UNCHANGED nevents
    /\ RaceFrame

StopStep ==
    /\ race.stop.pc \notin {"idle", "done"}
    /\ LET n == stop_step(daemon, race.stop, TestInput.module)
       IN  /\ daemon' = n.daemon
           /\ race' = [race EXCEPT !.stop = n.task]
    /\ UNCHANGED nevents
    /\ RaceFrame

RaceNext ==
    \/ Begin
    \/ StartStep
    \/ StopStep

(***************************************************************************)
(* The verifier as a state machine: verify is called on an input and       *)
(* returns one of its possible results.                                    *)
(***************************************************************************)
VerifyIdle ==
    /\ vin = TestInput
    /\ vpc = "idle"
    /\ vresult = NoResult

VerifyInit ==
    /\ vin \in VerifyInputs
    /\ vpc = "ready"
    /\ vresult = NoResult

Verify ==
    /\ vpc = "ready"
    /\ \E r \in verify(vin.config, vin.module, vin.fs) : vresult' = r
    /\ vpc' = "done"
    /\ UNCHANGED vin
    /\ UNCHANGED nonVerifyVars

VerifyNext ==
    \/ Verify

RegistryNext ==
    \/ \E t \in Threads, r \in Requests(RegistryNames) : Call(t, r)
    \/ \E t \in Threads : AcquireWrite(t)
    \/ \E t \in Threads : AcquireRead(t)
    \/ \E t \in Threads : Return(t)

Init ==
    /\ RegistryInit /\ VerifyIdle /\ RuntimeIdle /\ MinerIdle /\ RetryIdle
    /\ ServiceIdle /\ EnvironmentIdle /\ ApiIdle /\ RaceIdle

Spec == Init /\ [][RegistryNext]_vars

RegisterNext ==
    \/ \E t \in Threads : CallRegister(t)
    \/ \E t \in Threads : AcquireWrite(t)
    \/ \E t \in Threads : Return(t)

SpecRegister == Init /\ [][RegisterNext]_vars

InitVerify ==
    /\ RegistryInit /\ VerifyInit /\ RuntimeIdle /\ MinerIdle /\ RetryIdle
    /\ ServiceIdle /\ EnvironmentIdle /\ ApiIdle /\ RaceIdle

SpecVerify == InitVerify /\ [][VerifyNext]_vars

SpecRuntime == Init /\ [][RuntimeNext]_vars

SpecNode == Init /\ [][NodeNext]_vars

SpecMiner == Init /\ [][MinerNext]_vars

\* execute is a task the runtime keeps polling: an attempt that can be made
\* is made, and a sleep that can end ends.
SpecMinerFair == Init /\ [][MinerNext]_vars /\ WF_vars(Attempt) /\ WF_vars(Sleep)

SpecInterface == Init /\ [][InterfaceNext]_vars

SpecApi == Init /\ [][ApiNext]_vars

SpecRace == Init /\ [][RaceNext]_vars

(***************************************************************************)
(* Properties of the registry.                                             *)
(***************************************************************************)
Returns(t, k) == pc[t] = "locked" /\ pc'[t] = "idle" /\ op[t].kind = k

Returned(t, k) == pc[t] = "idle" /\ op[t].kind = k

\* C1: a register_module call whose module the Verifier rejects (here: whose
\* name verify_name rejects) returns an error and leaves the catalog as it was.
C1_RejectedRegistrationHasNoEffect ==
    [][\A t \in Threads :
          (Returns(t, "register_module") /\ verify_name(op[t].config.name).kind # "Ok")
          => (result'[t].kind # "Ok" /\ modules' = modules)]_vars

\* C2: a register_module call on a name already in the catalog returns
\* ModuleExists for that name and leaves the catalog, so also the metadata
\* stored under the name, as it was.
C2_RegistrationIsInsertOnly ==
    [][\A t \in Threads :
          (Returns(t, "register_module") /\ op[t].config.name \in DOMAIN modules)
          => /\ result'[t].kind = "ModuleExists"
             /\ result'[t].val = op[t].config.name
             /\ modules' = modules]_vars

C2_Witness ==
    \E t \in Threads :
        /\ Returned(t, "register_module")
        /\ result[t].kind = "ModuleExists"
        /\ op[t].config.name \in DOMAIN modules
        /\ modules[op[t].config.name] # op[t].config

\* C3: in every reachable state a name has a metadata entry if and only if
\* the registry holds a runtime entry for it.
C3_MetadataIffRuntime ==
    \A n \in RegistryNames : (n \in DOMAIN modules) <=> (n \in runtimes)

\* C4: when every call issued so far is a register_module call, one per
\* thread, with pairwise distinct names the Verifier accepts, every call that
\* has returned returned Ok, and once all have returned list_modules yields
\* exactly one entry per name and no other entry.
Callers == {t \in Threads : op[t].kind # "none"}

DistinctValidRegistrations ==
    /\ ncalls = Cardinality(Callers)
    /\ \A t \in Callers :
          op[t].kind = "register_module" /\ verify_name(op[t].config.name).kind = "Ok"
    /\ \A t, u \in Callers : t # u => op[t].config.name # op[u].config.name

C4_ConcurrentDistinctRegistrations ==
    DistinctValidRegistrations =>
        /\ \A t \in Callers : pc[t] = "idle" => result[t].kind = "Ok"
        /\ (\A t \in Callers : pc[t] = "idle") =>
              LET listed == list_modules(modules)[2].val
              IN  /\ {c.name : c \in listed} = {op[t].config.name : t \in Callers}
                  /\ Cardinality(listed) = Cardinality(Callers)
                  /\ listed = {op[t].config : t \in Callers}

C4_Witness ==
    /\ DistinctValidRegistrations
    /\ Cardinality(Callers) >= 2
    /\ \A t \in Callers : pc[t] = "idle" /\ result[t].kind = "Ok"
    /\ Cardinality(DOMAIN modules) = Cardinality(Callers)

\* C5: remove_module on a name that is not in the catalog returns
\* ModuleNotFound and changes nothing; a successful remove_module takes the
\* name out of the catalog, and as long as the name has not been registered
\* again get_module and remove_module on it return ModuleNotFound.
C5_RemoveUnknownAndRemoved ==
    [][\A t \in Threads :
          /\ (Returns(t, "remove_module") /\ op[t].name \notin DOMAIN modules)
             => /\ result'[t].kind = "ModuleNotFound"
                /\ result'[t].val = op[t].name
                /\ modules' = modules
          /\ (Returns(t, "remove_module") /\ result'[t].kind = "Ok")
             => op[t].name \notin DOMAIN modules'
          /\ ((Returns(t, "remove_module") \/ Returns(t, "get_module")) /\ op[t].name \in removed)
             => result'[t].kind = "ModuleNotFound"]_vars

C5_Witness ==
    \E t \in Threads :
        /\ Returned(t, "remove_module")
        /\ op[t].name \in removed
        /\ result[t].kind = "ModuleNotFound"

\* C20: at every moment at most one register_module, update_module or
\* remove_module call holds the catalog, no list_modules, get_module or
\* get_module_status call holds it together with such a call, and read
\* calls can hold it together (all threads at once, in the witness).
Mutating == {t \in Threads : pc[t] = "locked" /\ op[t].kind \in WriteOps}

Reading == {t \in Threads : pc[t] = "locked" /\ op[t].kind \in ReadOps}

C20_ReaderWriterDiscipline ==
    /\ Cardinality(Mutating) <= 1
    /\ Mutating # {} => Reading = {}

C20_Witness ==
    /\ Reading = Threads
    /\ {op[t].kind : t \in Threads} # {"list_modules"}
    /\ modules # EmptyMap

(***************************************************************************)
(* Properties of the verifier.                                             *)
(***************************************************************************)
IsDocker == vin.module.module_type.type = "Docker"

\* The outcome kind of each check of verify on the Docker module of vin,
\* taken alone, in the order name, image, port, env, volumes, health check.
CheckKinds ==
    LET t == vin.module.module_type
    IN  << {verify_name(vin.module.name).kind},
           {verify_docker_image(vin.config, t.image).kind},
           {verify_port(vin.config, t.port).kind},
           {r.kind : r \in verify_env_vars(vin.config, t.env)},
           {r.kind : r \in verify_volumes(vin.config, t.volumes)},
           {verify_health_check(t.health_check).kind} >>

CheckErrors ==
    << "InvalidName", "InvalidImage", "InvalidPort", "MissingEnvVar", "InvalidVolume",
       "InvalidHealthCheck" >>

FailingChecks == {i \in 1..6 : CheckKinds[i] # {"Ok"}}

PassesBefore(i) == \A j \in 1..(i - 1) : j \notin FailingChecks

\* C6: verify on a Docker module returns the error of the first check that
\* fails in the order name, image registry, port, environment variables,
\* volumes, health check - each check failing with its own variant - and Ok
\* when no check fails.
C6_FirstFailingCheckDecides ==
    (vpc = "done" /\ IsDocker) =>
        /\ \A i \in 1..6 : CheckKinds[i] \in {{"Ok"}, {CheckErrors[i]}}
        /\ FailingChecks = {} => vresult.kind = "Ok"
        /\ \A i \in FailingChecks : PassesBefore(i) => vresult.kind = CheckErrors[i]

C6_Witness ==
    /\ vpc = "done"
    /\ IsDocker
    /\ {2, 3, 4, 5, 6} \subseteq FailingChecks
    /\ 1 \notin FailingChecks
    /\ vresult.kind = "InvalidImage"

\* C7: verify answers InvalidName unless every character of the name is a
\* lowercase ASCII letter, a digit or a dash and the name has 3 to 63
\* characters, and never answers InvalidName for such a name.
LowercaseLetters == 97..122
Digits == 48..57
Dash == 45

NameWellFormed(name) ==
    /\ \A i \in 1..Len(name) : name[i] \in LowercaseLetters \cup Digits \cup {Dash}
    /\ Len(name) >= 3
    /\ Len(name) <= 63

C7_NameRule ==
    vpc = "done" => (vresult.kind # "InvalidName" <=> NameWellFormed(vin.module.name))

C7_Witness ==
    /\ vpc = "done"
    /\ Len(vin.module.name) = 63
    /\ vin.module.name[1] = Dash
    /\ vresult.kind = "Ok"

\* C8: for a Docker module whose name passes, verify answers InvalidImage
\* unless the registry host of the image reference is a member of
\* allowed_registries.  The registry host of a reference is the host it was
\* written with (lowercased under a special scheme, as URLs are read); a
\* reference without host, or whose port is not a number, has none.
RegistryHosts(ref) ==
    IF ref.host = "" \/ ref.port \notin {""} \cup DigitWords THEN {}
    ELSE IF ref.scheme \in SpecialSchemes THEN {to_ascii_lowercase(ref.host)}
    ELSE {ref.host}

C8_ImageRule ==
    (vpc = "done" /\ IsDocker /\ PassesBefore(2)) =>
        (vresult.kind # "InvalidImage"
            <=> RegistryHosts(vin.ref) \cap vin.config.allowed_registries # {})

C8_Witness ==
    /\ vpc = "done"
    /\ IsDocker
    /\ vin.ref.host = "ghcr.io"
    /\ vin.ref.port = "5000"
    /\ vin.ref.user = "user"
    /\ vresult.kind = "Ok"

\* C9: for a Docker module whose name and image pass, verify answers
\* InvalidPort unless some (min, max) of allowed_port_ranges has
\* min <= port <= max; under the default policy 1024 and 65535 pass and 1023
\* and 80 do not; an empty list of ranges refuses every port.
PortAllowed(ranges, port) ==
    \E i \in DOMAIN ranges : ranges[i][1] <= port /\ port <= ranges[i][2]

C9_PortRule ==
    (vpc = "done" /\ IsDocker /\ PassesBefore(3)) =>
        /\ vresult.kind # "InvalidPort"
             <=> PortAllowed(vin.config.allowed_port_ranges, vin.module.module_type.port)
        /\ vin.config.allowed_port_ranges = <<<<1024, 65535>>>> =>
             /\ vin.module.module_type.port \in {1024, 65535} => vresult.kind # "InvalidPort"
             /\ vin.module.module_type.port \in {1023, 80} => vresult.kind = "InvalidPort"
        /\ vin.config.allowed_port_ranges = <<>> => vresult.kind = "InvalidPort"

C9_Witness ==
    /\ vpc = "done"
    /\ IsDocker
    /\ vin.config.allowed_port_ranges = <<<<1024, 65535>>>>
    /\ vin.module.module_type.port = 65535
    /\ vresult.kind = "Ok"

\* C10: for a Docker module whose name, image and port pass, verify answers
\* MissingEnvVar unless env is present and holds every member of
\* required_env_vars; an absent env gets MissingEnvVar also when
\* required_env_vars is empty.
C10_EnvRule ==
    (vpc = "done" /\ IsDocker /\ PassesBefore(4)) =>
        /\ vresult.kind # "MissingEnvVar"
             <=> /\ vin.module.module_type.env.present
                 /\ vin.config.required_env_vars \subseteq vin.module.module_type.env.val
        /\ ~vin.module.module_type.env.present => vresult.kind = "MissingEnvVar"

C10_Witness ==
    /\ vpc = "done"
    /\ IsDocker
    /\ ~vin.module.module_type.env.present
    /\ vin.config.required_env_vars = {}
    /\ vresult.kind = "MissingEnvVar"

\* C11: for a Docker module whose name, image, port and env pass, verify
\* answers InvalidVolume unless volumes is absent or every host path of it
\* lies under some member of allowed_volume_paths, a path lying under a
\* prefix when the prefix's components (root, then names, repeated separators
\* and "." dropped) are the first components of the path; one host path
\* under no prefix is enough for InvalidVolume, whatever the other paths are.
PathParts(path) ==
    LET rooted == path # <<>> /\ Head(path) = "/"
        names == SelectSeq(path, LAMBDA w : w # "/")
        dotted == ~rooted /\ names # <<>> /\ Head(names) = "."
    IN  (IF rooted THEN <<"/">> ELSE IF dotted THEN <<".">> ELSE <<>>)
        \o SelectSeq(names, LAMBDA w : w # ".")

Prefixed(path, prefix) ==
    /\ Len(PathParts(prefix)) <= Len(PathParts(path))
    /\ \A i \in 1..Len(PathParts(prefix)) : PathParts(path)[i] = PathParts(prefix)[i]

VolumesAllowed(config, volumes) ==
    ~volumes.present
    \/ \A h \in volumes.val : \E a \in config.allowed_volume_paths : Prefixed(h, a)

C11_VolumeRule ==
    (vpc = "done" /\ IsDocker /\ PassesBefore(5)) =>
        /\ vresult.kind # "InvalidVolume"
             <=> VolumesAllowed(vin.config, vin.module.module_type.volumes)
        /\ (/\ vin.module.module_type.volumes.present
            /\ \E h \in vin.module.module_type.volumes.val :
                   \A a \in vin.config.allowed_volume_paths : ~Prefixed(h, a))
           => vresult.kind = "InvalidVolume"

C11_Witness ==
    /\ vpc = "done"
    /\ IsDocker
    /\ vin.config = VerificationConfigDefault
    /\ vin.module.module_type.volumes = Some({<<"/", "data", "/", "test">>, <<"/", "database">>})
    /\ vresult.kind = "InvalidVolume"

\* C12: for a Docker module whose earlier checks pass, verify answers
\* InvalidHealthCheck unless the health check is absent, or its test command
\* is not empty, its interval is at least 1 s and at most 300 s, its timeout
\* at least 1 s and at most 60 s (both given in nanoseconds) and its retries
\* at least 1 and at most 10.
WithinSeconds(x, min, max) ==
    /\ x.hi >= min
    /\ x.hi < max \/ (x.hi = max /\ x.lo = 0)

HealthCheckInBounds(health_check) ==
    \/ ~health_check.present
    \/ /\ health_check.val.test # <<>>
       /\ WithinSeconds(health_check.val.interval, 1, 300)
       /\ WithinSeconds(health_check.val.timeout, 1, 60)
       /\ health_check.val.retries >= 1
       /\ health_check.val.retries <= 10

C12_HealthCheckRule ==
    (vpc = "done" /\ IsDocker /\ PassesBefore(6)) =>
        (vresult.kind # "InvalidHealthCheck"
            <=> HealthCheckInBounds(vin.module.module_type.health_check))

(***************************************************************************)
(* Properties of the runtime.                                              *)
(***************************************************************************)
\* Thread t makes the call o on its runtime in this step.
Calls(t, o) == nevents' = nevents + 1 /\ last'.t = t /\ last'.op = o

\* What a status query that the daemon d answers returns for the module.
Observed(d, module) == status(Session(d, {}), module).res

IsState(res, state) == res.kind = "Ok" /\ res.val.state = state

AllAccepted(log) == \A i \in DOMAIN log : log[i].ok

\* C13: when status() returns Ok, the state it returns is Running if the
\* daemon reports the container running, Failed if it reports exited or
\* dead, and Stopped for every other report (created, paused, restarting,
\* removing, or none of the seven known statuses).
StateOf(reported) ==
    IF reported = "running" THEN "Running"
    ELSE IF reported \in {"exited", "dead"} THEN "Failed"
    ELSE "Stopped"

C13_StatusTranslation ==
    (last.op = "status" /\ last.res.kind = "Ok") =>
        last.res.val.state = StateOf(daemon.containers[rt[last.t].module.name].status)

\* C14: after a start call that returns Ok a status query returns Running,
\* and after a stop call that returns Ok on a module observed Running a
\* status query returns Ok with state Stopped.
C14_Lifecycle ==
    [][\A t \in Threads :
          /\ (Calls(t, "start") /\ last'.res.kind = "Ok")
             => IsState(Observed(daemon', rt[t].module), "Running")
          /\ (/\ Calls(t, "stop")
              /\ last'.res.kind = "Ok"
              /\ IsState(Observed(daemon, rt[t].module), "Running"))
             => IsState(Observed(daemon', rt[t].module), "Stopped")]_vars

\* C15: a start call on a module whose status is Failed, all of whose
\* requests the daemon accepts, returns Ok and leaves the module's status
\* Running.
C15_FailedIsNotTerminal ==
    [][\A t \in Threads :
          (/\ Calls(t, "start")
           /\ IsState(Observed(daemon, rt[t].module), "Failed")
           /\ AllAccepted(last'.log))
          => (last'.res.kind = "Ok" /\ IsState(Observed(daemon', rt[t].module), "Running"))]_vars

\* C16: a start call of a runtime of a Docker module made while the daemon
\* holds a container of the module's name does not fail with
\* ContainerExists, and the daemon holds a container of that name after it.
C16_StartIsIdempotent ==
    [][\A t \in Threads :
          (/\ Calls(t, "start")
           /\ rt[t].module.module_type.type = "Docker"
           /\ rt[t].module.name \in DOMAIN daemon.containers)
          => (/\ last'.res.val # "ContainerExists"
              /\ rt[t].module.name \in DOMAIN daemon'.containers)]_vars

\* C17: a stop call during which the daemon refuses a request (the stop, the
\* remove, or a lookup made for them) returns an error.
C17_StopReportsBackendErrors ==
    (last.op = "stop" /\ ~AllAccepted(last.log)) => last.res.kind # "Ok"

\* C18: when runtimes have been constructed, exactly one connection to the
\* daemon has been opened and all runtimes hold that connection.
C18_SharedConnection ==
    (\E t \in Threads : rt[t].present) =>
        /\ connections = 1
        /\ \A t, u \in Threads : (rt[t].present /\ rt[u].present) => rt[t].manager = rt[u].manager

\* C19: a start call never panics, whatever the module type; on a runtime
\* whose module is not a Docker module it returns InvalidModuleType and
\* issues no request to the daemon.
C19_StartNeverPanics ==
    (last.op \in {"start", "Module::start"}) =>
        /\ last.res.kind # "Panic"
        /\ (last.op = "start" /\ last.type # "Docker")
           => (last.res.kind = "InvalidModuleType" /\ last.log = <<>>)

(***************************************************************************)
(* Properties of the node.                                                 *)
(***************************************************************************)
\* C21: get_module_status on a registered name returns what the runtime's
\* status query returns at that moment: whenever the daemon answers the
\* query for the module of that name, the call returns Ok with the state
\* translated from the daemon's report (Running when it reports running),
\* whatever status the catalog stores for the name.
C21_StatusIsDelegated ==
    [][\A t \in Threads :
          (/\ Returns(t, "get_module_status")
           /\ op[t].name \in DOMAIN modules
           /\ Observed(daemon, Module(op[t].name, TestInput.module.module_type)).kind = "Ok")
          => (/\ result'[t].kind = "Ok"
              /\ result'[t].val.state
                    = Observed(daemon, Module(op[t].name, TestInput.module.module_type)).val.state)]_vars

C23_UnregisterFreesTheBackend ==
    [][\A t \in Threads :
          (/\ Returns(t, "remove_module")
           /\ result'[t].kind = "Ok"
           /\ op[t].name \in DOMAIN daemon.containers
           /\ daemon.containers[op[t].name].status = "running")
          => op[t].name \notin DOMAIN daemon'.containers]_vars

\* C24: right after a register_module that returns Ok, the state of the
\* module in the catalog is Stopped, whatever status the caller submitted.
C24_RegisteredIsStopped ==
    [][\A t \in Threads :
          (Returns(t, "register_module") /\ result'[t].kind = "Ok")
          => get_module_status(modules', op[t].name)[2].val.state = "Stopped"]_vars

\* C35: when several threads register the same name at once, exactly one of
\* them returns Ok, every other returns ModuleExists, and the catalog holds the
\* metadata submitted by the one that returned Ok.
SameName(n) == {t \in Callers : op[t].kind = "register_module" /\ op[t].config.name = n}

C35_OneRegistrationWins ==
    \A n \in ConcurrentNames :
        (SameName(n) # {} /\ \A t \in SameName(n) : pc[t] = "idle")
        => \E w \in SameName(n) :
              /\ result[w].kind = "Ok"
              /\ n \in DOMAIN modules
              /\ modules[n] = op[w].config
              /\ \A t \in SameName(n) \ {w} : result[t] = ModuleExists(n)

C35_Witness ==
    \E t, u \in Threads :
        /\ t # u
        /\ {t, u} \subseteq SameName(NameAbc)
        /\ op[t].config # op[u].config
        /\ pc[t] = "idle" /\ pc[u] = "idle"
        /\ result[t].kind = "Ok"
        /\ result[u].kind = "ModuleExists"

\* C36: every entry of the catalog is stored under the name its metadata
\* carries.
C36_KeyIsName == \A k \in DOMAIN modules : modules[k].name = k

\* C37: for one VerificationConfig and one module, every invocation of
\* verify returns the same result, error payload included.
C37_VerifyIsDeterministic ==
    [][(vpc = "ready" /\ vpc' = "done")
       => \A r \in verify(vin.config, vin.module, vin.fs) : r = vresult']_vars

(***************************************************************************)
(* Properties of the miner crate.                                          *)
(***************************************************************************)
MinerAllowed(o, state) ==
    CASE o = "start" -> state \in {"Initialized", "Stopped"}
      [] o = "pause" -> state = "Running"
      [] o = "resume" -> state = "Paused"
      [] o = "stop" -> state \in {"Running", "Paused"}

MinerTarget(o) ==
    CASE o = "start" -> "Running"
      [] o = "pause" -> "Paused"
      [] o = "resume" -> "Running"
      [] o = "stop" -> "Stopped"

\* C25: start succeeds only from Initialized or Stopped and leads to Running,
\* pause only from Running to Paused, resume only from Paused to Running,
\* stop only from Running or Paused to Stopped; every other call returns
\* InvalidStateTransition and leaves the state as it was.
C25_MinerStateMachine ==
    [][miner' # miner =>
          IF MinerAllowed(miner'.op, miner.state)
          THEN miner'.res.kind = "Ok" /\ miner'.state = MinerTarget(miner'.op)
          ELSE miner'.res = InvalidStateTransition /\ miner'.state = miner.state]_vars

C25_Witness ==
    /\ miner.op = "start"
    /\ miner.state = "Running"
    /\ miner.res = InvalidStateTransition

RetryReturned == retry.pc = "done"

\* C26: when no timeout is reached, an operation that fails its first k
\* attempts makes execute return Ok after exactly k + 1 invocations if
\* k < max_retries, and MaxRetriesExceeded after exactly max_retries
\* invocations otherwise; the operation is never invoked more than
\* max_retries times.
C26_RetryCount ==
    /\ retry.fail_count <= retry.config.max_retries
    /\ (RetryReturned /\ retry.result # Timeout)
       => IF retry.target_success < retry.config.max_retries
          THEN retry.result.kind = "Ok" /\ retry.fail_count = retry.target_success + 1
          ELSE retry.result = MaxRetriesExceeded /\ retry.fail_count = retry.config.max_retries

\* C26, amended: the same with max_retries counted as 1 when it is 0: the
\* operation is always invoked once before the number of attempts is tested.
AttemptsAllowed(config) == IF config.max_retries = 0 THEN 1 ELSE config.max_retries

C26_RetryCountFromOne ==
    /\ retry.fail_count <= AttemptsAllowed(retry.config)
    /\ (RetryReturned /\ retry.result # Timeout)
       => IF retry.target_success < AttemptsAllowed(retry.config)
          THEN retry.result.kind = "Ok" /\ retry.fail_count = retry.target_success + 1
          ELSE retry.result = MaxRetriesExceeded /\ retry.fail_count = AttemptsAllowed(retry.config)

C26_Witness ==
    /\ RetryReturned
    /\ retry.result = MaxRetriesExceeded
    /\ retry.target_success > retry.config.max_retries
    /\ retry.fail_count = retry.config.max_retries
    /\ retry.config.max_retries >= 3

\* C27: an attempt that begins after more than config.timeout has elapsed
\* returns Timeout without invoking the operation; and with max_retries of
\* at least 2, an operation that fails every time under a delay after the
\* first attempt longer than the timeout ends in Timeout.
C27_TimeoutEndsTheLoop ==
    [][(retry.pc = "attempt" /\ retry' # retry) =>
          /\ retry.elapsed > retry.config.timeout
             => (/\ retry'.pc = "done"
                 /\ retry'.result = Timeout
                 /\ retry'.fail_count = retry.fail_count)
          /\ (/\ retry'.pc = "done"
              /\ retry.config.max_retries >= 2
              /\ retry.target_success >= retry.config.max_retries
              /\ calculate_delay(retry.config, 1) > retry.config.timeout)
             => retry'.result = Timeout]_vars

C27_Witness ==
    /\ RetryReturned
    /\ retry.result = Timeout
    /\ retry.config.max_retries >= 2
    /\ retry.fail_count = 1
    /\ retry.slept > retry.config.timeout

\* C38: whatever calls are made on a Miner, its state is never Failed, and
\* once it has left Initialized it does not come back to it: from the first
\* successful start on the state is Running, Paused or Stopped.
C38_NoFailedNoReturn ==
    /\ [](miner.state # "Failed")
    /\ [][miner.state # "Initialized"
          => miner'.state \in {"Running", "Paused", "Stopped"}]_vars

C38_Witness ==
    /\ miner.op = "stop"
    /\ miner.res.kind = "Ok"
    /\ miner.state = "Stopped"

\* C33: an execute call returns: it never makes more than
\* max(max_retries, 1) attempts, and once called it comes to return Ok,
\* MaxRetriesExceeded or Timeout, also when max_retries is 0.
C33_ExecuteTerminates ==
    /\ [](retry.attempt <= AttemptsAllowed(retry.config))
    /\ [](RetryReturned => retry.result.kind \in {"Ok", "MaxRetriesExceeded", "Timeout"})
    /\ (retry.pc # "idle") ~> RetryReturned

C33_Witness ==
    /\ RetryReturned
    /\ retry.config.max_retries = 0
    /\ retry.attempt = 1
    /\ retry.result \in {MaxRetriesExceeded, Timeout}

(***************************************************************************)
(* Properties of the interface core.                                       *)
(***************************************************************************)
\* C28: a start_mining(m) that follows a successful register_miner(m)
\* succeeds and returns is_active = true with the registered stake, and a
\* stop_mining(m) that follows a successful start_mining(m) succeeds and
\* returns is_active = false.
C28_ServiceLifecycle ==
    [][\A m \in MinerNames :
          /\ (/\ StartMining(m)
              /\ miners.op = "register_miner" /\ miners.name = m /\ miners.res.kind = "Ok")
             => (/\ miners'.res.kind = "Ok"
                 /\ miners'.res.val.is_active
                 /\ miners'.res.val.current_stake = miners.res.val.current_stake)
          /\ (/\ StopMining(m)
              /\ miners.op = "start_mining" /\ miners.name = m /\ miners.res.kind = "Ok")
             => (miners'.res.kind = "Ok" /\ ~miners'.res.val.is_active)]_vars

\* C29: a get_active_environment() that follows a switch_environment(n)
\* which returned Ok gives the environment named n, with its container
\* Running.
C29_ActiveIsTheLastSwitched ==
    [][(/\ environment'.op = "get_active_environment"
        /\ environment.op = "switch_environment"
        /\ environment.res.kind = "Ok")
       => (/\ environment'.active.kind = "Ok"
           /\ environment'.active.val.name = environment.name
           /\ environment'.active.val.container_status = "Running")]_vars

(***************************************************************************)
(* Properties of the registrar API and of the validator.                   *)
(***************************************************************************)
\* C32: the client reads every outcome of the registry as the router sent
\* it: after a register, unregister, get status, update status or start, a
\* success of the registry is Ok at the client, ModuleNotFound is
\* ClientError::ModuleNotFound and ModuleExists is ClientError::ModuleExists.
C32_ClientAgrees ==
    /\ http.outcome = "Ok" => http.res.kind = "Ok"
    /\ http.outcome = "ModuleNotFound" => http.res.kind = "ClientError::ModuleNotFound"
    /\ http.outcome = "ModuleExists" => http.res.kind = "ClientError::ModuleExists"

\* C34: a register_module of the ValidatorManager that returns an error
\* leaves subnet_modules as it was before the call.
C34_NoPartialRegistration ==
    (validator.op = "register_module" /\ validator.res.kind # "Ok")
        => validator.subnet_modules = validator.before

(***************************************************************************)
(* Properties of a start and a stop made at once.  The two sequential      *)
(* orders are the calls of docker.rs run one after the other on the        *)
(* daemon as it was when the two calls were made.                          *)
(***************************************************************************)
RaceOutcome(d, started, stopped) == [daemon |-> d, start |-> started, stop |-> stopped]

StartThenStop(d, module) ==
    LET a == start(Session(d, {}), module)
        b == stop(Session(a.s.daemon, {}), module)
    IN  RaceOutcome(b.s.daemon, a.res, b.res)

StopThenStart(d, module) ==
    LET b == stop(Session(d, {}), module)
        a == start(Session(b.s.daemon, {}), module)
    IN  RaceOutcome(a.s.daemon, a.res, b.res)

BothReturned == race.start.pc = "done" /\ race.stop.pc = "done"

Serialized ==
    RaceOutcome(daemon, race.start.res, race.stop.res)
        \in {StartThenStop(race.before, TestInput.module), StopThenStart(race.before, TestInput.module)}

\* C31: when a start and a stop of one module made at once have both
\* returned, the daemon's containers and the two results are those of the
\* start followed by the stop, or of the stop followed by the start.
C31_Serialized == BothReturned => Serialized

\* C31, amended: the stop returns Ok in every interleaving; the outcome is
\* that of one of the two sequential orders whenever the start returns Ok
\* too, and otherwise the start has failed on a container the stop removed
\* under it or on one it found, and no container of the module is running.
C31_SerializedUnlessStartFails ==
    BothReturned =>
        /\ race.stop.res = Ok(Unit)
        /\ race.start.res.kind = "Ok" => Serialized
        /\ ~Serialized =>
              /\ race.start.res.val \in {"ContainerNotFound", "Docker"}
              /\ TestInput.module.name \notin DOMAIN daemon.containers

C31_Witness ==
    /\ BothReturned
    /\ race.start.res.kind = "Ok"
    /\ race.before = DaemonInit
    /\ TestInput.module.name \notin DOMAIN daemon.containers

(***************************************************************************)
(* Properties of the runtime, continued.                                   *)
(***************************************************************************)
Issued(log, api) == {i \in DOMAIN log : log[i].api = api}

\* C30: a start() sends the daemon's create request before its start
\* request; when the create request fails or is not sent, start() returns an
\* error and the start request is not sent; neither request is sent twice.
C30_CreateBeforeStart ==
    [][\A t \in Threads :
          Calls(t, "start") =>
             LET log == last'.log
                 creates == Issued(log, "create_container")
                 starts == Issued(log, "start_container")
             IN  /\ Cardinality(creates) <= 1
                 /\ Cardinality(starts) <= 1
                 /\ \A j \in starts : \E i \in creates : i < j /\ log[i].ok
                 /\ (\A i \in creates : ~log[i].ok) => last'.res.kind # "Ok"]_vars

C30_Witness ==
    /\ last.op = "start"
    /\ last.res.kind = "Ok"
    /\ Issued(last.log, "create_container") # {}
    /\ Issued(last.log, "start_container") # {}

TypeOK ==
    /\ DOMAIN modules \subseteq RegistryNames \cup ConcurrentNames \cup NodeNames
    /\ lock.writer \in Threads \cup {NoThread}
    /\ lock.readers \subseteq Threads
    /\ ncalls \in Nat
    /\ miner.state \in MinerStates
    /\ retry.pc \in {"idle", "attempt", "sleeping", "done"}
    /\ DOMAIN miners.active_miners \subseteq MinerNames
    /\ DOMAIN environment.active_modules \subseteq EnvironmentNames
====
